---- MODULE Spec2Model ----
(***************************************************************************)
(* A model of core/realtime_simulation.py: the BlockchainSimulator, its    *)
(* background simulation thread and the snapshot reader get_current_data. *)
(*                                                                         *)
(* Money is kept in whole currency units and every random factor in       *)
(* permille, so that the arithmetic of the source stays integer.          *)
(* The simulated clock is the number of seconds since construction.       *)
(***************************************************************************)
EXTENDS Integers, Sequences, FiniteSets, TLC

(***************************************************************************)
(* Bounds of the model.  The source keeps 200 samples per chain and 50    *)
(* events and serves windows of 30, 60 and 90 points; the model keeps the *)
(* same code with these sizes scaled down so that eviction, trimming and  *)
(* padding all happen within a few ticks.                                  *)
(***************************************************************************)
\* len(history) > 200 in _generate_tick_data, scaled
HistoryCap == 2
\* len(transaction_events) > 50 in _generate_fraud_event: as in the source, a
\* quarter of the history cap (rounded up)
EventCap == (HistoryCap + 3) \div 4
\* points_map['1M'] = 30, scaled; '5M' and '30M' are its double and triple
Points1M == 1
\* ticks after which the model stops the clock
MaxTicks == 3
\* self.transaction_events[-5:]
RecentEvents == 5

VARIABLES
    running,             \* self.running
    thread,              \* self.thread: 0 is None, else an index of threads
    current_time,        \* self.current_time, seconds since construction
    balance_history,     \* self.balance_history: chain -> list of data points
    volume_history,      \* self.volume_history: chain -> list of data points
    transaction_events,  \* self.transaction_events
    threads,             \* the Thread objects created so far: where each is in _simulation_loop
    caller,              \* where the thread that calls the public methods is
    last_call            \* the public method called last and how far it got

\* the module-level simulator of realtime_simulation.py
VARIABLES
    _simulator,          \* the global _simulator: 0 is None, else the number of the object
    instances,           \* how many BlockchainSimulator objects were constructed
    returned             \* the object the last get_simulator call returned, 0 before any

\* the streaming responses of portfolio/api.py
VARIABLES
    streams              \* viewer -> the state of its portfolio_stream response

\* the database tables and the sessions behind the views of core/views.py
VARIABLES
    wallets,             \* the rows of Wallet: id, user, address, chain
    next_id,             \* the id the next Wallet row gets
    user_settings,       \* the users that have a UserSettings row
    portfolio_cache,     \* the users that have a PortfolioCache row
    session_user,        \* session -> the user logged in, or Anonymous
    inflight,            \* session -> the htmx_add_wallet request between check and create
    response             \* the response sent last

\* the Transaction table read by PortfolioService._calculate_wallet_balance
VARIABLES
    transactions,        \* the rows of Transaction, in the order of their timestamps
    balance_call         \* the last call of _calculate_wallet_balance and its result

\* a tick taken statement by statement, and a thread that reads meanwhile
VARIABLES
    tick_local,          \* the local variables of the _generate_tick_data in progress
    reader               \* the get_current_data call of the reading thread, and what it saw last

\* the threads that call start_simulation and stop_simulation at the same time
VARIABLES
    callers              \* calling thread -> where it is in its call, and the Thread object it joins

\* the simulators made by threads that call get_simulator and stop_global_simulator at the same time
VARIABLES
    objects,             \* the BlockchainSimulator objects constructed: running, thread, current_time of each
    object_threads,      \* the Thread objects: the simulator each belongs to and where it is in the loop
    getters              \* calling thread -> where it is in its call, the simulator it works on, what it returned

\* the PortfolioCache table behind CacheService, and the clock
VARIABLES
    cache_rows,          \* the rows of PortfolioCache: user, cache_key, data, expires_at
    now,                 \* timezone.now(), in minutes
    last_set,            \* (user, key) -> the latest set_portfolio_data call: data, ttl_minutes, when
    cache_call           \* the last get_portfolio_data call and what it returned

\* the requests that call PortfolioService.get_portfolio_summary for one user
VARIABLES
    active_wallets,      \* how many Wallet rows of the user have is_active set
    mock_data_enabled,   \* UserSettings.mock_data_enabled of the user
    services,            \* request -> its PortfolioService and where it is in get_portfolio_summary
    summary_call         \* the last get_portfolio_summary call that returned, and what it returned

sim_state == <<current_time, balance_history, volume_history, transaction_events>>
ledger_vars == <<transactions, balance_call>>
simulator_vars == <<running, thread, sim_state, threads, caller, last_call>>
global_vars == <<_simulator, instances, returned>>
stream_vars == <<streams>>
stored_data == <<wallets, next_id, user_settings, portfolio_cache>>
web_vars == <<stored_data, session_user, inflight, response>>

fine_vars == <<tick_local, reader>>

race_vars == <<callers>>

getter_vars == <<objects, object_threads, getters>>

cache_vars == <<cache_rows, now, last_set, cache_call>>

summary_vars == <<active_wallets, mock_data_enabled, services, summary_call>>

\* everything that is not a field or a thread of the BlockchainSimulator object
beyond_simulator == <<global_vars, stream_vars, web_vars, ledger_vars, fine_vars,
    race_vars, getter_vars, cache_vars, summary_vars>>
\* everything get_simulator and stop_global_simulator do not touch
beyond_global == <<stream_vars, web_vars, ledger_vars, fine_vars, race_vars,
    getter_vars, cache_vars, summary_vars>>
\* everything a streaming response does not touch
beyond_stream == <<simulator_vars, global_vars, web_vars, ledger_vars, fine_vars,
    race_vars, getter_vars, cache_vars, summary_vars>>
\* everything the views of core/views.py do not touch
beyond_web == <<simulator_vars, global_vars, stream_vars, ledger_vars, fine_vars,
    race_vars, getter_vars, cache_vars, summary_vars>>
\* everything _calculate_wallet_balance and the Transaction table do not touch
beyond_ledger == <<simulator_vars, global_vars, stream_vars, web_vars, fine_vars,
    race_vars, getter_vars, cache_vars, summary_vars>>
\* everything the statements of a tick and the reading thread do not touch
beyond_fine == <<global_vars, stream_vars, web_vars, ledger_vars, race_vars,
    getter_vars, cache_vars, summary_vars>>
\* everything concurrent calls of start_simulation and stop_simulation do not touch
beyond_race == <<global_vars, stream_vars, web_vars, ledger_vars, fine_vars,
    getter_vars, cache_vars, summary_vars>>
\* everything concurrent calls of get_simulator and stop_global_simulator do not touch
beyond_getters == <<simulator_vars, instances, returned, stream_vars, web_vars,
    ledger_vars, fine_vars, race_vars, cache_vars, summary_vars>>
\* everything CacheService does not touch
beyond_cache == <<simulator_vars, global_vars, stream_vars, web_vars, ledger_vars,
    fine_vars, race_vars, getter_vars, summary_vars>>
\* everything get_portfolio_summary and the cache behind it do not touch
beyond_summary == <<simulator_vars, global_vars, stream_vars, web_vars, ledger_vars,
    fine_vars, race_vars, getter_vars>>

vars == <<running, thread, current_time, balance_history, volume_history,
          transaction_events, threads, caller, last_call, beyond_simulator>>

----------------------------------------------------------------------------
(* self.chains *)

ChainOrder == <<"ethereum", "arbitrum", "optimism", "polygon">>
Chains == {ChainOrder[i] : i \in 1..Len(ChainOrder)}
NumChains == Len(ChainOrder)

base_balance(chain) ==
    CASE chain = "ethereum" -> 2500000
      [] chain = "arbitrum" -> 850000
      [] chain = "optimism" -> 450000
      [] chain = "polygon"  -> 1200000

\* volatility, in permille
volatility(chain) ==
    CASE chain = "ethereum" -> 150
      [] chain = "arbitrum" -> 200
      [] chain = "optimism" -> 250
      [] chain = "polygon"  -> 180

----------------------------------------------------------------------------
(* datetime: isoformat() and fromisoformat() on the simulated clock *)

Isoformat(t) == <<t \div 3600, (t \div 60) % 60, t % 60>>
FromIsoformat(s) == s[1] * 3600 + s[2] * 60 + s[3]

\* x * (permille / 1000), dividing first to stay within 32 bits
Scale(x, permille) == (x \div 1000) * permille

Max(a, b) == IF a >= b THEN a ELSE b
Min(a, b) == IF a <= b THEN a ELSE b

\* random.uniform(a, b), the draw u in permille of the interval
Uniform(a, b, u) == a + ((b - a) * u) \div 1000

----------------------------------------------------------------------------
(* The random module.  One ChainDraw stands for the numbers the generator  *)
(* hands to the calculation of one chain in one tick: z is the normal     *)
(* deviate behind random.gauss (in standard deviations), mixing, bridge   *)
(* and fraud are the outcomes of the random.random() < p rolls and u      *)
(* places every random.uniform within its interval (in permille).         *)

Calm  == [z |-> 0, mixing |-> FALSE, bridge |-> FALSE, fraud |-> FALSE, u |-> 500]
Crash == [z |-> -400, mixing |-> FALSE, bridge |-> FALSE, fraud |-> FALSE, u |-> 0]
Fraud == [z |-> 1, mixing |-> TRUE, bridge |-> TRUE, fraud |-> TRUE, u |-> 1000]

\* the draws of one tick, one per chain
TickDraws ==
    {[c \in Chains |-> Crash], [c \in Chains |-> IF c = "arbitrum" THEN Calm ELSE Fraud]}

\* trend, in permille per day
trend(chain) ==
    CASE chain = "ethereum" -> 20
      [] chain = "arbitrum" -> -10
      [] chain = "optimism" -> 50
      [] chain = "polygon"  -> -30

\* math.sin(seconds_elapsed * 0.1) * 0.05 in permille, by the cubic Taylor
\* polynomial of the sine (exact to a permille for the seconds the model reaches)
WavePermille(sec) == 5 * sec - (sec * sec * sec) \div 120

\* self.current_time.second, the simulator being constructed at second 0
SecondOf(t) == t % 60

_is_fraud_active(draw) == draw.fraud
_is_mixing_active(draw) == draw.mixing
_is_bridge_active(draw) == draw.bridge

_get_fraud_influence(chain, draw) ==
    IF chain = "ethereum" /\ _is_mixing_active(draw)
    THEN Uniform(1100, 1300, draw.u)
    ELSE IF chain \in {"arbitrum", "polygon"} /\ _is_bridge_active(draw)
    THEN Uniform(800, 950, draw.u)
    ELSE IF chain = "optimism" /\ _is_bridge_active(draw)
    THEN Uniform(1050, 1200, draw.u)
    ELSE 1000

\* random.gauss(0, sigma) in permille, sigma in millionths
random_gauss(z, sigma) == z * (sigma \div 1000)

NoClamp(balance) == balance

\* return max(balance, 0)
ClampMin(balance) == Max(balance, 0)

_calculate_chain_balance(chain, t, draw) ==
    LET seconds_elapsed == SecondOf(t)
        wave            == WavePermille(seconds_elapsed)
        trend_factor    == 1000 + (trend(chain) * seconds_elapsed) \div 3600
        random_factor   == 1000 + random_gauss(draw.z, volatility(chain) * 20)
        fraud_factor    == _get_fraud_influence(chain, draw)
        balance         == Scale(Scale(Scale(Scale(base_balance(chain), trend_factor),
                                             random_factor), fraud_factor), 1000 + wave)
    IN  ClampMin(balance)

_calculate_chain_volume(chain, draw) ==
    LET base_volume      == base_balance(chain) \div 10
        fraud_multiplier == IF _is_fraud_active(draw) THEN Uniform(2000, 5000, draw.u) ELSE 1000
        random_factor    == Uniform(500, 2000, draw.u)
    IN  Scale(Scale(base_volume, fraud_multiplier), random_factor) \div 24

----------------------------------------------------------------------------
(* _generate_tick_data and _generate_fraud_event *)

event_types_renamed == <<"large_transfer", "mixing_service", "bridge_transaction",
                         "tumbler_activity", "structuring">>

event_types == <<"large_transfer", "mixing_service", "bridge_transaction",
                 "tumbler_activity", "multiple_small_transfers">>

_get_event_description(event_type) ==
    CASE event_type = "large_transfer" -> "Large transfer detected between flagged addresses"
      [] event_type = "mixing_service" -> "Interaction with known mixing service"
      [] event_type = "bridge_transaction" -> "Cross-chain bridge transaction"
      [] event_type = "tumbler_activity" -> "Possible tumbler/privacy coin interaction"
      [] event_type = "multiple_small_transfers" -> "Multiple small transfers (possible structuring)"
      [] OTHER -> "Suspicious activity detected"

\* the draws of one _generate_fraud_event: random.choice twice, then random.uniform
EventDraws ==
    {[type |-> i, chain |-> ((i - 1) % NumChains) + 1, u |-> 200 * (i - 1)] :
        i \in 1..Len(event_types)}

EvictNever(list, cap) == list

\* an eviction that drops the newest entry
EvictNewest(list, cap) == IF Len(list) > cap THEN SubSeq(list, 1, Len(list) - 1) ELSE list

\* pop(0) once the list is longer than its cap
Evict(list, cap) == IF Len(list) > cap THEN Tail(list) ELSE list

\* one pass of the loop over self.chains: the data point, the two appends, the two pops
StoreDataPoint(history, chain, data_point) ==
    [history EXCEPT ![chain] = Evict(Append(@, data_point), HistoryCap)]

DataPoint(chain, t, draw) ==
    [timestamp |-> Isoformat(t),
     balance   |-> _calculate_chain_balance(chain, t, draw),
     volume    |-> _calculate_chain_volume(chain, draw),
     chain     |-> chain]

\* the history after the loop has passed the first n chains
RECURSIVE StoreChains(_, _, _, _)
StoreChains(history, n, t, draws) ==
    IF n = 0 THEN history
    ELSE LET chain == ChainOrder[n]
         IN  StoreDataPoint(StoreChains(history, n - 1, t, draws), chain,
                            DataPoint(chain, t, draws[chain]))

\* event = {...}
FraudEvent(t, ed) ==
    LET event_type == event_types[ed.type]
    IN  [timestamp        |-> Isoformat(t),
         type             |-> event_type,
         chain            |-> ChainOrder[ed.chain],
         amount           |-> Uniform(10000, 500000, ed.u),
         suspicious_score |-> Uniform(700, 1000, ed.u),
         description      |-> _get_event_description(event_type)]

_generate_fraud_event(events, t, ed) ==
    Evict(Append(events, FraudEvent(t, ed)), EventCap)

\* Where a tick raises: at 0 the clock update raises, at n in 1..NumChains the
\* calculation for the n-th chain raises, at NumChains + 1 _generate_fraud_event
\* raises before its append; NoFail is a tick that returns.  The model lets a
\* tick raise at the clock update, in the second pass of the loop and in
\* _generate_fraud_event.
NoFail == NumChains + 2
FailPoints == {0, 2, NumChains + 1}

\* random.random() < 0.1 came out false: no event in this tick
NoEvent == [type |-> 0, chain |-> 0, u |-> 0]

\* a clock that runs backwards
SubtractSecond(t) == t - 1

\* self.current_time += timedelta(seconds=1)
AddSecond(t) == t + 1

\* One call of _generate_tick_data: what it leaves behind, having returned
\* (fail = NoFail) or raised at fail.  ed is NoEvent or the draws of the event.
_generate_tick_data(draws, ed, fail) ==
    LET t      == AddSecond(current_time)
        passed == IF fail > NumChains THEN NumChains ELSE fail - 1
    IN  IF fail = 0
        THEN UNCHANGED sim_state
        ELSE /\ current_time' = t
             /\ balance_history' = StoreChains(balance_history, passed, t, draws)
             /\ volume_history' = StoreChains(volume_history, passed, t, draws)
             /\ transaction_events' =
                    IF ed # NoEvent /\ fail = NoFail
                    THEN _generate_fraud_event(transaction_events, t, ed)
                    ELSE transaction_events

----------------------------------------------------------------------------
(* get_current_data *)

Timeframes == {"1M", "5M", "30M", "1H"}

points_map(timeframe) ==
    CASE timeframe = "1M"  -> Points1M
      [] timeframe = "5M"  -> 2 * Points1M
      [] timeframe = "30M" -> 3 * Points1M
      [] OTHER             -> Points1M

\* range(start, 0, -step) as a list
RangeDown(start, step) == [i \in 1..((start + step - 1) \div step) |-> start - (i - 1) * step]

\* list[:n]
FirstN(list, n) == SubSeq(list, 1, Min(n, Len(list)))

\* list[-n:] for n > 0
LastN(list, n) == SubSeq(list, Max(Len(list) - n, 0) + 1, Len(list))

Labels(timeframe) ==
    LET num_points == points_map(timeframe)
        Fmt(list, unit) == [i \in 1..Len(list) |-> <<list[i], unit>>]
    IN  IF timeframe = "1M" THEN Fmt(RangeDown(num_points, 1), "s")
        ELSE IF timeframe = "5M" THEN Fmt(FirstN(RangeDown(num_points * 5, 5), num_points), "s")
        ELSE Fmt(FirstN(RangeDown(Points1M, 1), num_points), "m")

RecentDataShared(history, num_points) == [items |-> history, shared |-> TRUE]

\* history[-num_points:] if history else []: the list the padding loop works on,
\* and whether it is the history list itself rather than a new list
RecentData(history, num_points) ==
    [items |-> IF history # <<>> THEN LastN(history, num_points) ELSE <<>>, shared |-> FALSE]

PadPoint(chain) == [balance |-> base_balance(chain), volume |-> 0]

PadNever(data, num_points, pad) == data

PadRight(data, num_points, pad) ==
    data \o [i \in 1..Max(num_points - Len(data), 0) |-> pad]

\* while len(data) < num_points: data.insert(0, pad)
PadLeft(data, num_points, pad) ==
    [i \in 1..Max(num_points - Len(data), 0) |-> pad] \o data

\* the padded list of one chain, and the history list after the padding loop
PaddedData(history, chain, num_points) ==
    PadLeft(RecentData(history, num_points).items, num_points, PadPoint(chain))

HistoryAfterRead(history, chain, num_points) ==
    IF RecentData(history, num_points).shared
    THEN PaddedData(history, chain, num_points)
    ELSE history

RECURSIVE SumOver(_, _)
SumOver(f, n) == IF n = 0 THEN 0 ELSE f[ChainOrder[n]] + SumOver(f, n - 1)

\* a division guarded by nothing
NoGuard(divisor) == TRUE

\* the guard of the division: "if previous_balance > 0 else 0"
PreviousPositive(divisor) == divisor > 0

\* Python's "/": ZeroDivisionError when the divisor is zero
Divide(dividend, divisor) ==
    [raised |-> divisor = 0,
     value  |-> IF divisor = 0 THEN 0 ELSE dividend \div divisor]

\* the conditional expression assigned to change_percent, with whether it raised
ChangePercentResult(total, previous) ==
    IF PreviousPositive(previous)
    THEN Divide((total - previous) * 100, previous)
    ELSE [raised |-> FALSE, value |-> 0]

\* the number formatted by f"{change_percent:+.2f}", in whole percent
ChangePercent(total, previous) == ChangePercentResult(total, previous).value

FormatSigned(x) == <<IF x < 0 THEN "-" ELSE "+", IF x < 0 THEN -x ELSE x>>

\* strftime("%H:%M:%S")
Strftime(t) == <<(t \div 3600) % 24, (t \div 60) % 60, t % 60>>

\* multi_chain_data[chain_id] as get_current_data builds it
ChainData(chain, num_points) ==
    LET balance_data == PaddedData(balance_history[chain], chain, num_points)
        volume_data  == PaddedData(volume_history[chain], chain, num_points)
        b == LastN(balance_data, num_points)
        v == LastN(volume_data, num_points)
    IN  [balances |-> [i \in 1..Len(b) |-> b[i].balance],
         volume   |-> [i \in 1..Len(v) |-> v[i].volume]]

\* sum(data['balances'][-1] if data['balances'] else 0 ...)
total_balance(timeframe) ==
    SumOver([chain \in Chains |->
                LET b == ChainData(chain, points_map(timeframe)).balances
                IN  IF b # <<>> THEN b[Len(b)] ELSE 0], NumChains)

\* sum(data['balances'][-2] if len(data['balances']) > 1 else ... [-1] ... else 0 ...)
previous_balance(timeframe) ==
    SumOver([chain \in Chains |->
                LET b == ChainData(chain, points_map(timeframe)).balances
                IN  IF Len(b) > 1 THEN b[Len(b) - 1]
                    ELSE IF b # <<>> THEN b[Len(b)] ELSE 0], NumChains)

\* get_current_data leaves by an exception instead of returning
get_current_data_raises(timeframe) ==
    ChangePercentResult(total_balance(timeframe), previous_balance(timeframe)).raised

get_current_data(timeframe) ==
    LET num_points == points_map(timeframe)
        multi_chain_data == [chain \in Chains |-> ChainData(chain, num_points)]
    IN  [success          |-> TRUE,
         timeframe        |-> timeframe,
         labels           |-> Labels(timeframe),
         multi_chain_data |-> multi_chain_data,
         summary |->
            [total_balance  |-> total_balance(timeframe),
             change_percent |-> FormatSigned(ChangePercent(total_balance(timeframe),
                                                           previous_balance(timeframe))),
             chains_tracked |-> NumChains,
             fraud_events   |-> Cardinality({i \in 1..Len(transaction_events) :
                                    FromIsoformat(transaction_events[i].timestamp)
                                        > current_time - 24 * 3600})],
         recent_events    |-> LastN(transaction_events, RecentEvents),
         simulation_time  |-> Strftime(current_time)]

----------------------------------------------------------------------------
(* The state after __init__ *)

NoCall == [op |-> "", arg |-> ""]

\* _simulator = None
GlobalInit ==
    /\ _simulator = 0
    /\ instances = 0
    /\ returned = 0

Viewers == {"alice", "bob"}

\* no request to /stream was made yet
NoStream == [pc |-> "none", connected |-> FALSE, status |-> 0, headers |-> {},
             pending |-> <<>>, seq |-> 0, last |-> <<>>, computed |-> 0, sent |-> 0]

StreamInit == streams = [v \in Viewers |-> NoStream]

Sessions == {"s1", "s2"}
Anonymous == "AnonymousUser"
NoRequest == [user |-> "", chain |-> "", address |-> ""]
NoResponse == [session |-> "", view |-> "", status |-> 0, auth_status |-> "", listing |-> {},
               wallet_id |-> 0]

\* an empty database and no session logged in
WebInit ==
    /\ wallets = {}
    /\ next_id = 1
    /\ user_settings = {}
    /\ portfolio_cache = {}
    /\ session_user = [s \in Sessions |-> Anonymous]
    /\ inflight = [s \in Sessions |-> NoRequest]
    /\ response = NoResponse

\* the state of everything beyond the simulator when the process starts
NoBalanceCall == [wallet |-> 0, symbol |-> "", result |-> 0]

\* no transaction is recorded
LedgerInit ==
    /\ transactions = <<>>
    /\ balance_call = NoBalanceCall

\* no tick is in progress
NoTick == [n |-> 0, data_point |-> <<>>]

\* the reading thread is in no call and has seen nothing
NoReader == [pc |-> "idle", n |-> 0, timeframe |-> "", balance_data |-> <<>>,
             volume_data |-> <<>>, fraud_events |-> 0, len |-> 0]

FineInit ==
    /\ tick_local = NoTick
    /\ reader = NoReader

CallerIds == {"c1", "c2"}

\* a calling thread that is in no call
NoCaller == [pc |-> "idle", joined |-> 0]

RaceInit == callers = [c \in CallerIds |-> NoCaller]

\* a calling thread that is in no call and has got no simulator yet
NoGetter == [pc |-> "idle", object |-> 0, result |-> 0]

GetterInit ==
    /\ objects = <<>>
    /\ object_threads = <<>>
    /\ getters = [c \in CallerIds |-> NoGetter]

\* Python's None, and a datetime (both records, so that they can be compared)
None == [none |-> TRUE]
Datetime(minute) == [minute |-> minute]

\* the (user, cache_key) pairs the callers of CacheService use
CacheSlots == {<<"alice", "portfolio_summary">>, <<"alice", "history">>,
               <<"bob", "portfolio_summary">>}

NoSet == [data |-> None, ttl_minutes |-> 0, at |-> 0]
NoCacheCall == [user |-> "", key |-> "", result |-> None]

\* an empty PortfolioCache table
CacheInit ==
    /\ cache_rows = {}
    /\ now = 0
    /\ last_set = [slot \in CacheSlots |-> NoSet]
    /\ cache_call = NoCacheCall

\* the requests in progress at the same time, and the user they are made for
RequestIds == {"r1", "r2"}
SummaryUser == "alice"
SummarySlot == <<SummaryUser, "portfolio_summary">>

NoService == [pc |-> "idle", mock_data_enabled |-> FALSE, result |-> None]
NoSummaryCall ==
    [result |-> None, cached |-> FALSE, at |-> 0, wallets |-> 0,
     mock_data_enabled |-> FALSE]

\* a user without wallets and without a UserSettings row that enables mock data
SummaryInit ==
    /\ active_wallets = 0
    /\ mock_data_enabled = FALSE
    /\ services = [r \in RequestIds |-> NoService]
    /\ summary_call = NoSummaryCall

BeyondInit ==
    /\ GlobalInit /\ StreamInit /\ WebInit /\ LedgerInit /\ FineInit /\ RaceInit
    /\ GetterInit /\ CacheInit /\ SummaryInit

Init ==
    /\ BeyondInit
    /\ running = FALSE
    /\ thread = 0
    /\ current_time = 0
    /\ balance_history = [chain \in Chains |-> <<>>]
    /\ volume_history = [chain \in Chains |-> <<>>]
    /\ transaction_events = <<>>
    /\ threads = <<>>
    /\ caller = "idle"
    /\ last_call = NoCall

----------------------------------------------------------------------------
(* _simulation_loop, run by the i-th Thread object *)

\* while self.running:
LoopCheck(i) ==
    /\ threads[i] = "while"
    /\ threads' = [threads EXCEPT ![i] = IF running THEN "try" ELSE "done"]
    /\ UNCHANGED <<running, thread, sim_state, caller, last_call>>
    /\ UNCHANGED beyond_simulator

RaiseLeavesLoop == "done"

\* where the loop goes when the tick raised: the except clause
AfterRaise == "except"

\* try: self._generate_tick_data()
Tick(i) ==
    /\ threads[i] = "try"
    /\ current_time < MaxTicks
    /\ \E draws \in TickDraws, ed \in EventDraws \cup {NoEvent},
          fail \in FailPoints \cup {NoFail} :
        /\ fail = NumChains + 1 => ed # NoEvent
        /\ _generate_tick_data(draws, ed, fail)
        /\ threads' = [threads EXCEPT ![i] = IF fail # NoFail THEN AfterRaise ELSE "sleep"]
    /\ UNCHANGED <<running, thread, caller, last_call>>
    /\ UNCHANGED beyond_simulator

\* time.sleep(1)
Sleep(i) ==
    /\ threads[i] = "sleep"
    /\ threads' = [threads EXCEPT ![i] = "while"]
    /\ UNCHANGED <<running, thread, sim_state, caller, last_call>>
    /\ UNCHANGED beyond_simulator

\* except Exception as e: logger.error(...)
Except(i) ==
    /\ threads[i] = "except"
    /\ threads' = [threads EXCEPT ![i] = "while"]
    /\ UNCHANGED <<running, thread, sim_state, caller, last_call>>
    /\ UNCHANGED beyond_simulator

----------------------------------------------------------------------------
(* The public methods, called one after the other by one thread *)

NeverRunning == FALSE

\* if self.running: return
AlreadyRunning == running

\* The Thread objects still in _simulation_loop.  A finished Thread is garbage
\* once self.thread is overwritten, so start_simulation drops it.
LiveThreads == SelectSeq(threads, LAMBDA pc : pc # "done")

start_simulation ==
    /\ caller = "idle"
    /\ IF AlreadyRunning
       THEN /\ last_call' = [op |-> "start_simulation", arg |-> "already running"]
            /\ UNCHANGED <<running, thread, threads>>
       ELSE /\ running' = TRUE
            /\ threads' = Append(LiveThreads, "while")
            /\ thread' = Len(LiveThreads) + 1
            /\ last_call' = [op |-> "start_simulation", arg |-> "started"]
    /\ UNCHANGED <<sim_state, caller>>
    /\ UNCHANGED beyond_simulator

\* stop_simulation up to the join
stop_simulation ==
    /\ caller = "idle"
    /\ running' = FALSE
    /\ caller' = IF thread # 0 THEN "join" ELSE "idle"
    /\ last_call' = [op |-> "stop_simulation", arg |-> IF thread # 0 THEN "joining" ELSE "returned"]
    /\ UNCHANGED <<thread, sim_state, threads>>
    /\ UNCHANGED beyond_simulator

JoinTimesOut(t) == TRUE

\* self.thread.join() returns once the thread has left _simulation_loop
JoinReturns(t) == threads[t] = "done"

Join ==
    /\ caller = "join"
    /\ JoinReturns(thread)
    /\ caller' = "idle"
    /\ last_call' = [op |-> "stop_simulation", arg |-> "returned"]
    /\ UNCHANGED <<running, thread, sim_state, threads>>
    /\ UNCHANGED beyond_simulator

GetCurrentData(timeframe) ==
    /\ caller = "idle"
    /\ balance_history' =
          [chain \in Chains |->
              HistoryAfterRead(balance_history[chain], chain, points_map(timeframe))]
    /\ volume_history' =
          [chain \in Chains |->
              HistoryAfterRead(volume_history[chain], chain, points_map(timeframe))]
    /\ last_call' = [op  |-> "get_current_data",
                     arg |-> IF get_current_data_raises(timeframe)
                             THEN "raised" ELSE "returned"]
    /\ UNCHANGED <<running, thread, current_time, transaction_events, threads, caller>>
    /\ UNCHANGED beyond_simulator

Next ==
    \/ \E i \in 1..Len(threads) : LoopCheck(i)
    \/ \E i \in 1..Len(threads) : Tick(i)
    \/ \E i \in 1..Len(threads) : Sleep(i)
    \/ \E i \in 1..Len(threads) : Except(i)
    \/ start_simulation
    \/ stop_simulation
    \/ Join
    \/ \E timeframe \in Timeframes : GetCurrentData(timeframe)

Spec == Init /\ [][Next]_vars

----------------------------------------------------------------------------
(* get_simulator and stop_global_simulator, called one after the other by one
   thread, while the thread of the global simulator runs *)

MaxInstances == 2

\* a constructor that leaves the histories and the event log of the object before
ConstructKeepsHistory ==
    /\ running' = FALSE
    /\ thread' = 0
    /\ current_time' = 0
    /\ UNCHANGED <<balance_history, volume_history, transaction_events>>

\* BlockchainSimulator(): the fields __init__ sets
Construct ==
    /\ running' = FALSE
    /\ thread' = 0
    /\ current_time' = 0
    /\ balance_history' = [chain \in Chains |-> <<>>]
    /\ volume_history' = [chain \in Chains |-> <<>>]
    /\ transaction_events' = <<>>

\* get_simulator up to the call of start_simulation:
\* if _simulator is None: _simulator = BlockchainSimulator()
get_simulator ==
    /\ caller = "idle"
    /\ IF _simulator = 0
       THEN /\ instances < MaxInstances
            /\ Construct
            /\ instances' = instances + 1
            /\ _simulator' = instances + 1
            /\ caller' = "created"
       ELSE /\ caller' = "found"
            /\ UNCHANGED <<running, thread, sim_state, _simulator, instances>>
    /\ last_call' = [op |-> "get_simulator", arg |-> "called"]
    /\ UNCHANGED <<threads, returned>>
    /\ UNCHANGED beyond_global

\* _simulator.start_simulation() on the object just constructed
StartGlobal ==
    /\ caller = "created"
    /\ IF AlreadyRunning
       THEN UNCHANGED <<running, thread, threads>>
       ELSE /\ running' = TRUE
            /\ threads' = Append(LiveThreads, "while")
            /\ thread' = Len(LiveThreads) + 1
    /\ caller' = "started"
    /\ UNCHANGED <<sim_state, last_call, global_vars>>
    /\ UNCHANGED beyond_global

\* return _simulator
ReturnGlobal ==
    /\ caller \in {"started", "found"}
    /\ returned' = _simulator
    /\ caller' = "idle"
    /\ last_call' = [op |-> "get_simulator", arg |-> "returned"]
    /\ UNCHANGED <<running, thread, sim_state, threads, _simulator, instances>>
    /\ UNCHANGED beyond_global

\* stop_global_simulator up to the join inside stop_simulation
stop_global_simulator ==
    /\ caller = "idle"
    /\ IF _simulator # 0
       THEN /\ running' = FALSE
            /\ caller' = IF thread # 0 THEN "global join" ELSE "clear"
            /\ last_call' = [op |-> "stop_global_simulator", arg |-> "stopping"]
       ELSE /\ last_call' = [op |-> "stop_global_simulator", arg |-> "returned"]
            /\ UNCHANGED <<running, caller>>
    /\ UNCHANGED <<thread, sim_state, threads, global_vars>>
    /\ UNCHANGED beyond_global

\* self.thread.join() inside _simulator.stop_simulation()
JoinGlobal ==
    /\ caller = "global join"
    /\ JoinReturns(thread)
    /\ caller' = "clear"
    /\ UNCHANGED <<running, thread, sim_state, threads, last_call, global_vars>>
    /\ UNCHANGED beyond_global

\* _simulator = None
ClearGlobal ==
    /\ caller = "clear"
    /\ _simulator' = 0
    /\ caller' = "idle"
    /\ last_call' = [op |-> "stop_global_simulator", arg |-> "returned"]
    /\ UNCHANGED <<running, thread, sim_state, threads, instances, returned>>
    /\ UNCHANGED beyond_global

GlobalNext ==
    \/ \E i \in 1..Len(threads) : LoopCheck(i)
    \/ \E i \in 1..Len(threads) : Tick(i)
    \/ \E i \in 1..Len(threads) : Sleep(i)
    \/ \E i \in 1..Len(threads) : Except(i)
    \/ get_simulator
    \/ StartGlobal
    \/ ReturnGlobal
    \/ stop_global_simulator
    \/ JoinGlobal
    \/ ClearGlobal

GlobalSpec == Init /\ [][GlobalNext]_vars

----------------------------------------------------------------------------
(* portfolio_stream and portfolio_sse_stream: one streaming response per viewer.
   streams[v] holds, for viewer v: pc, where the generator is; connected, whether
   the viewer's connection is up; status and headers of the response; pending,
   the string the generator yielded last; last, the frame written to the viewer
   last, and seq, how many frames were written, counted modulo SeqModulus;
   computed and sent, the calls of get_portfolio_summary and the frames written
   since the loop last came round. *)

SeqModulus == 3

\* json.dumps(data) and json.dumps(error_data), without the timestamp and amounts
UpdateJson == <<"type", "portfolio-update">>
ErrorJson == <<"type", "error", "message", "Failed to fetch portfolio data">>

\* f"data: {data}\n\n"
Frame(data) == <<"data: ", data, "\n\n">>

StreamHeaders ==
    {<<"Content-Type", "text/event-stream">>, <<"Cache-Control", "no-cache">>,
     <<"X-Accel-Buffering", "no">>}

\* GET /stream: 401 without a user, else the streaming response
portfolio_stream(v, is_authenticated) ==
    /\ streams[v].pc = "none"
    /\ streams' = [streams EXCEPT ![v] =
          IF ~is_authenticated
          THEN [NoStream EXCEPT !.pc = "unauthorized", !.status = 401]
          ELSE [NoStream EXCEPT !.pc = "try", !.connected = TRUE, !.status = 200,
                                !.headers = StreamHeaders]]
    /\ UNCHANGED beyond_stream

\* try: summary = ...get_portfolio_summary(); data = {...} up to the yield, or,
\* when that raises an Exception, the except clause up to its yield
Compute(v, raises) ==
    /\ streams[v].pc = "try"
    /\ streams' = [streams EXCEPT ![v] =
          [@ EXCEPT !.pc = IF raises THEN "yield error" ELSE "yield",
                    !.pending = IF raises THEN ErrorJson ELSE UpdateJson,
                    !.computed = @ + 1]]
    /\ UNCHANGED beyond_stream

\* a generator whose except clause also takes the close of the generator
CloseRetries == "try"

\* The response is closed while the generator waits at a yield: GeneratorExit is
\* no Exception, the except clause lets it pass and the generator ends.
CloseEnds == "closed"

\* The server takes the yielded string through event_stream and writes the frame;
\* when the connection is gone the write fails and the server closes the response.
Write(v) ==
    /\ streams[v].pc \in {"yield", "yield error"}
    /\ streams' = [streams EXCEPT ![v] =
          IF @.connected
          THEN [@ EXCEPT !.pc = IF @ = "yield" THEN "sleep" ELSE "sleep error",
                         !.last = Frame(streams[v].pending),
                         !.seq = (@ + 1) % SeqModulus,
                         !.sent = @ + 1]
          ELSE [@ EXCEPT !.pc = CloseEnds]]
    /\ UNCHANGED beyond_stream

\* a loop that ends after one pass
RunsOnce == "closed"

\* while True:
WhileTrue == "try"

\* time.sleep(0.1) after a snapshot, time.sleep(5) after an error, and round again
StreamSleep(v) ==
    /\ streams[v].pc \in {"sleep", "sleep error"}
    /\ streams' = [streams EXCEPT ![v] =
          [@ EXCEPT !.pc = WhileTrue, !.computed = 0, !.sent = 0]]
    /\ UNCHANGED beyond_stream

\* the viewer goes away
Disconnect(v) ==
    /\ streams[v].connected
    /\ streams' = [streams EXCEPT ![v] = [@ EXCEPT !.connected = FALSE]]
    /\ UNCHANGED beyond_stream

\* the first tick of the simulator's thread
FirstTick(i) == current_time = 0 /\ Tick(i)

\* the steps of the streaming responses
ViewerNext ==
    \/ \E v \in Viewers, is_authenticated \in BOOLEAN : portfolio_stream(v, is_authenticated)
    \/ \E v \in Viewers, raises \in BOOLEAN : Compute(v, raises)
    \/ \E v \in Viewers : Write(v)
    \/ \E v \in Viewers : StreamSleep(v)
    \/ \E v \in Viewers : Disconnect(v)

\* the streaming responses next to a simulator that is started and ticks
StreamNext ==
    \/ ViewerNext
    \/ start_simulation
    \/ \E i \in 1..Len(threads) : LoopCheck(i)
    \/ \E i \in 1..Len(threads) : FirstTick(i)
    \/ \E i \in 1..Len(threads) : Sleep(i)
    \/ \E i \in 1..Len(threads) : Except(i)

StreamSpec == Init /\ [][StreamNext]_vars

\* Each response is served by a thread of its own, which keeps running: the
\* steps of the generator and of the server's write are taken when they can be.
StreamFairness ==
    \A v \in Viewers :
        /\ WF_vars(\E raises \in BOOLEAN : Compute(v, raises))
        /\ WF_vars(Write(v))
        /\ WF_vars(StreamSleep(v))

StreamLive == Init /\ [][ViewerNext]_vars /\ StreamFairness

----------------------------------------------------------------------------
(* The views of core/views.py behind /htmx/, requested by two sessions.  A
   session sends its next request when the one before is answered; requests of
   different sessions overlap, which shows between the check and the create of
   htmx_add_wallet. *)

MaxWallets == 3

\* the rows of User
Users == {"alice", "bob"}
UserTable ==
    [alice |-> [email |-> "alice@example.com", username |-> "alice", password |-> "pw-a"],
     bob   |-> [email |-> "bob@example.com", username |-> "bob", password |-> "pw-b"]]

\* what the requests carry
Methods == {"GET", "POST", "DELETE"}
Usernames == {"", "alice@example.com", "bob@example.com", "alice"}
Passwords == {"", "pw-a", "pw-b"}
Names == {"", "main"}
ChainChoices == {"", "ethereum", "solana"}
Addresses == {"", "0x742d"}

\* a password check that takes any password
AnyPassword(u, password) == TRUE

\* user.check_password(password)
check_password(u, password) == UserTable[u].password = password

\* authenticate(request, username=..., password=...) with the ModelBackend: the
\* user whose USERNAME_FIELD, the email, is username, when the password is
\* right; None is Anonymous
authenticate(username, password) ==
    LET found == {u \in Users : UserTable[u].email = username /\ check_password(u, password)}
    IN  IF found = {} THEN Anonymous ELSE CHOOSE u \in found : TRUE

\* '@' in username
HasAt(username) == username \in {"alice@example.com", "bob@example.com"}

\* the user htmx_login logs in: authenticate, and for a username that looks like
\* an email a second try with the username of the user who has that email
LoginUser(username, password) ==
    LET user == authenticate(username, password)
        email_users == {u \in Users : UserTable[u].email = username}
    IN  IF user = Anonymous /\ HasAt(username) /\ email_users # {}
        THEN authenticate(UserTable[CHOOSE u \in email_users : TRUE].username, password)
        ELSE user

\* a response; wallet_id is the id in the path of the request, when it has one
Respond(s, view, status) ==
    [session |-> s, view |-> view, status |-> status, auth_status |-> "", listing |-> {},
     wallet_id |-> 0]

\* a decorator that lets every request through
AllowAnonymous(s) == FALSE

\* @login_required redirects to LOGIN_URL: the session has no user
login_required(s) == session_user[s] = Anonymous

\* @login_required and @require_http_methods: the status they answer with, or 0
\* when the request reaches the view
Decorators(s, method, allowed) ==
    IF login_required(s) THEN 302
    ELSE IF method \notin allowed THEN 405
    ELSE 0

htmx_login(s, method, username, password) ==
    /\ inflight[s] = NoRequest
    /\ IF method \notin {"GET", "POST"}
       THEN /\ response' = Respond(s, "htmx_login", 405)
            /\ UNCHANGED session_user
       ELSE IF method = "GET"
       THEN /\ response' = Respond(s, "htmx_login", 200)
            /\ UNCHANGED session_user
       ELSE IF username = "" \/ password = ""
       THEN /\ response' = Respond(s, "htmx_login", 400)
            /\ UNCHANGED session_user
       ELSE IF LoginUser(username, password) # Anonymous
       THEN /\ session_user' = [session_user EXCEPT ![s] = LoginUser(username, password)]
            /\ response' = [Respond(s, "htmx_login", 200) EXCEPT
                                !.auth_status = "authenticated"]
       ELSE /\ response' = Respond(s, "htmx_login", 401)
            /\ UNCHANGED session_user
    /\ UNCHANGED <<stored_data, inflight>>
    /\ UNCHANGED beyond_web

htmx_logout(s, method) ==
    /\ inflight[s] = NoRequest
    /\ IF method # "POST"
       THEN /\ response' = Respond(s, "htmx_logout", 405)
            /\ UNCHANGED session_user
       ELSE /\ session_user' = [session_user EXCEPT ![s] = Anonymous]
            /\ response' = [Respond(s, "htmx_logout", 200) EXCEPT
                                !.auth_status = "unauthenticated"]
    /\ UNCHANGED <<stored_data, inflight>>
    /\ UNCHANGED beyond_web

\* Wallet.objects.filter(user=..., address=..., chain=...).exists()
WalletExists(user, address, chain) ==
    \E w \in wallets : w.user = user /\ w.address = address /\ w.chain = chain

\* htmx_add_wallet up to Wallet.objects.create
htmx_add_wallet(s, method, name, chain, address) ==
    /\ inflight[s] = NoRequest
    /\ LET status == Decorators(s, method, {"GET", "POST"})
       IN  IF status # 0
           THEN response' = Respond(s, "htmx_add_wallet", status) /\ UNCHANGED inflight
           ELSE IF method = "GET"
           THEN response' = Respond(s, "htmx_add_wallet", 200) /\ UNCHANGED inflight
           ELSE IF name = "" \/ chain = "" \/ address = ""
           THEN response' = Respond(s, "htmx_add_wallet", 400) /\ UNCHANGED inflight
           ELSE IF WalletExists(session_user[s], address, chain)
           THEN response' = Respond(s, "htmx_add_wallet", 400) /\ UNCHANGED inflight
           ELSE /\ next_id + Cardinality({t \in Sessions : inflight[t] # NoRequest})
                        <= MaxWallets
                /\ inflight' = [inflight EXCEPT ![s] =
                        [user |-> session_user[s], chain |-> chain, address |-> address]]
                /\ UNCHANGED response
    /\ UNCHANGED <<stored_data, session_user>>
    /\ UNCHANGED beyond_web

\* a table without the constraint
NoConstraint(user, address, chain) == TRUE

\* Meta.unique_together = ("user", "address", "chain"): the insert is refused
\* with an IntegrityError when a row with the same three values exists
unique_together(user, address, chain) == ~WalletExists(user, address, chain)

\* try: Wallet.objects.create(...) ... except Exception: ... status=500
CreateWallet(s) ==
    /\ inflight[s] # NoRequest
    /\ IF unique_together(inflight[s].user, inflight[s].address, inflight[s].chain)
       THEN /\ wallets' = wallets \cup
                    {[id |-> next_id, user |-> inflight[s].user,
                      address |-> inflight[s].address, chain |-> inflight[s].chain]}
            /\ next_id' = next_id + 1
            /\ response' = Respond(s, "htmx_add_wallet", 200)
       ELSE /\ response' = Respond(s, "htmx_add_wallet", 500)
            /\ UNCHANGED <<wallets, next_id>>
    /\ inflight' = [inflight EXCEPT ![s] = NoRequest]
    /\ UNCHANGED <<user_settings, portfolio_cache, session_user>>
    /\ UNCHANGED beyond_web

\* a lookup that takes the wallet of any user
AnyOwner(w, user) == TRUE

\* get_object_or_404(Wallet, id=wallet_id, user=request.user)
OwnedBy(w, user) == w.user = user

htmx_delete_wallet(s, method, wallet_id) ==
    /\ inflight[s] = NoRequest
    /\ LET status == Decorators(s, method, {"DELETE"})
           found == {w \in wallets : w.id = wallet_id /\ OwnedBy(w, session_user[s])}
           answer(code) == [Respond(s, "htmx_delete_wallet", code) EXCEPT
                                !.wallet_id = wallet_id]
       IN  IF status # 0
           THEN response' = answer(status) /\ UNCHANGED wallets
           ELSE IF found = {}
           THEN response' = answer(404) /\ UNCHANGED wallets
           ELSE /\ wallets' = wallets \ found
                /\ response' = answer(200)
    /\ UNCHANGED <<next_id, user_settings, portfolio_cache, session_user, inflight>>
    /\ UNCHANGED beyond_web

\* the wallets the page lists: Wallet.objects.filter(user=request.user)
htmx_wallets(s, method) ==
    /\ inflight[s] = NoRequest
    /\ LET status == Decorators(s, method, {"GET"})
       IN  response' =
             IF status # 0 THEN Respond(s, "htmx_wallets", status)
             ELSE [Respond(s, "htmx_wallets", 200) EXCEPT
                      !.listing = {w.id : w \in {x \in wallets : x.user = session_user[s]}}]
    /\ UNCHANGED <<stored_data, session_user, inflight>>
    /\ UNCHANGED beyond_web

\* htmx_dashboard hands the request to htmx_cases_list, a GET view
htmx_dashboard(s, method) ==
    /\ inflight[s] = NoRequest
    /\ LET status == Decorators(s, method, {"GET"})
       IN  response' = Respond(s, "htmx_dashboard", IF status # 0 THEN status ELSE 200)
    /\ UNCHANGED <<stored_data, session_user, inflight>>
    /\ UNCHANGED beyond_web

\* htmx_transactions: UserSettings.objects.get_or_create(user=request.user, ...)
htmx_transactions(s, method) ==
    /\ inflight[s] = NoRequest
    /\ LET status == Decorators(s, method, {"GET"})
       IN  IF status # 0
           THEN response' = Respond(s, "htmx_transactions", status) /\ UNCHANGED user_settings
           ELSE /\ user_settings' = user_settings \cup {session_user[s]}
                /\ response' = Respond(s, "htmx_transactions", 200)
    /\ UNCHANGED <<wallets, next_id, portfolio_cache, session_user, inflight>>
    /\ UNCHANGED beyond_web

\* htmx_portfolio_summary: get_portfolio_summary stores its result in PortfolioCache
htmx_portfolio_summary(s, method) ==
    /\ inflight[s] = NoRequest
    /\ LET status == Decorators(s, method, {"GET"})
       IN  IF status # 0
           THEN response' = Respond(s, "htmx_portfolio_summary", status)
                /\ UNCHANGED portfolio_cache
           ELSE /\ portfolio_cache' = portfolio_cache \cup {session_user[s]}
                /\ response' = Respond(s, "htmx_portfolio_summary", 200)
    /\ UNCHANGED <<wallets, next_id, user_settings, session_user, inflight>>
    /\ UNCHANGED beyond_web

\* Logged-in and anonymous sessions add, list and delete wallets.
WalletNext ==
    \/ \E s \in Sessions, username \in {"alice@example.com", "bob@example.com"},
          password \in {"pw-a", "pw-b"} : htmx_login(s, "POST", username, password)
    \/ \E s \in Sessions, name \in Names, chain \in ChainChoices, address \in Addresses :
            htmx_add_wallet(s, "POST", name, chain, address)
    \/ \E s \in Sessions : CreateWallet(s)
    \/ \E s \in Sessions, wallet_id \in 1..MaxWallets :
            htmx_delete_wallet(s, "DELETE", wallet_id)
    \/ \E s \in Sessions : htmx_wallets(s, "GET")

WalletSpec == Init /\ [][WalletNext]_vars

\* Sessions log in and out and request the protected pages with any method.
AuthNext ==
    \/ \E s \in Sessions, username \in Usernames, password \in Passwords :
            htmx_login(s, "POST", username, password)
    \/ \E s \in Sessions, method \in Methods \ {"POST"} : htmx_login(s, method, "", "")
    \/ \E s \in Sessions, method \in Methods : htmx_logout(s, method)
    \/ \E s \in Sessions, method \in Methods :
            htmx_add_wallet(s, method, "main", "ethereum", "0x742d")
    \/ \E s \in Sessions : CreateWallet(s)
    \/ \E s \in Sessions, method \in Methods : htmx_wallets(s, method)
    \/ \E s \in Sessions, method \in Methods : htmx_dashboard(s, method)
    \/ \E s \in Sessions, method \in Methods : htmx_transactions(s, method)
    \/ \E s \in Sessions, method \in Methods : htmx_portfolio_summary(s, method)

AuthSpec == Init /\ [][AuthNext]_vars

----------------------------------------------------------------------------
(* PortfolioService._calculate_wallet_balance over the rows of Transaction.
   Amounts are Decimals: the model counts them in units of the last decimal
   place, and an addition or subtraction rounds its result to the precision of
   the decimal context, half to even, as Python's does. *)

MaxTransactions == 2

\* the precision of the decimal context in significant digits (Python's is 28)
Prec == 2

RECURSIVE Pow10(_)
Pow10(n) == IF n = 0 THEN 1 ELSE 10 * Pow10(n - 1)

Abs(x) == IF x < 0 THEN -x ELSE x

RECURSIVE Digits(_)
Digits(n) == IF n < 10 THEN 1 ELSE 1 + Digits(n \div 10)

\* the result of a Decimal operation: x rounded to Prec significant digits
ContextRound(x) ==
    LET a == Abs(x)
        q == Pow10(Digits(a) - Prec)
        low == (a \div q) * q
        rest == a - low
        up == \/ 2 * rest > q
              \/ 2 * rest = q /\ (low \div q) % 2 = 1
        rounded == IF up THEN low + q ELSE low
    IN  IF Digits(a) <= Prec THEN x
        ELSE IF x < 0 THEN -rounded ELSE rounded

LedgerWallets == {1, 2}
Symbols == {"ETH", "BTC"}
TransactionTypes == {"buy", "sell", "transfer", "contract_call"}
Amounts == {1, 5, Pow10(Prec)}

\* Transaction.objects.create(...)
CreateTransaction(wallet, transaction_type, amount, asset_symbol) ==
    /\ Len(transactions) < MaxTransactions
    /\ transactions' = Append(transactions,
            [wallet |-> wallet, transaction_type |-> transaction_type,
             amount |-> amount, asset_symbol |-> asset_symbol])
    /\ UNCHANGED balance_call
    /\ UNCHANGED beyond_ledger

\* Transaction.objects.filter(wallet=wallet, asset_symbol=asset.symbol), which
\* Meta.ordering gives newest first
FilterTransactions(wallet, symbol) ==
    LET n == Len(transactions)
        newest_first == [i \in 1..n |-> transactions[n + 1 - i]]
    IN  SelectSeq(newest_first,
                  LAMBDA t : t.wallet = wallet /\ t.asset_symbol = symbol)

\* the for loop of _calculate_wallet_balance from the i-th row on
RECURSIVE BalanceLoop(_, _, _)
BalanceLoop(rows, i, balance) ==
    IF i > Len(rows) THEN balance
    ELSE LET transaction == rows[i]
         IN  BalanceLoop(rows, i + 1,
                IF transaction.transaction_type \in {"buy", "transfer"}
                THEN ContextRound(balance + transaction.amount)
                ELSE IF transaction.transaction_type \in {"sell"}
                THEN ContextRound(balance - transaction.amount)
                ELSE balance)

_calculate_wallet_balance(wallet, symbol) ==
    BalanceLoop(FilterTransactions(wallet, symbol), 1, 0)

CalculateWalletBalance(wallet, symbol) ==
    /\ balance_call' = [wallet |-> wallet, symbol |-> symbol,
                        result |-> _calculate_wallet_balance(wallet, symbol)]
    /\ UNCHANGED transactions
    /\ UNCHANGED beyond_ledger

LedgerNext ==
    \/ \E wallet \in LedgerWallets, transaction_type \in TransactionTypes,
          amount \in Amounts, asset_symbol \in Symbols :
            CreateTransaction(wallet, transaction_type, amount, asset_symbol)
    \/ \E wallet \in LedgerWallets, symbol \in Symbols : CalculateWalletBalance(wallet, symbol)

LedgerSpec == Init /\ [][LedgerNext]_vars

----------------------------------------------------------------------------
(* _generate_tick_data statement by statement, run by the simulation thread
   while another thread reads.  The interpreter can switch threads between any
   two statements, so every statement that touches a list is a step of its own:
   threads[i] is then "for" (at the head of the loop over self.chains),
   "append balance", "append volume", "pop balance", "pop volume", "fraud"
   (at the roll for an event) or "pop event".  tick_local holds n, the chain
   the loop is at, and data_point. *)

\* the random numbers of the ticks taken statement by statement: those of a calm
\* market, and those of one event
FineDraws == {[c \in Chains |-> Calm]}
FineEventDraws == {ed \in EventDraws : ed.type = 1}

\* self.current_time += timedelta(seconds=self.simulation_speed)
AdvanceClock(i) ==
    /\ threads[i] = "try"
    /\ current_time < MaxTicks
    /\ current_time' = AddSecond(current_time)
    /\ tick_local' = [n |-> 1, data_point |-> <<>>]
    /\ threads' = [threads EXCEPT ![i] = "for"]
    /\ UNCHANGED <<running, thread, balance_history, volume_history,
                   transaction_events, caller, last_call, reader>>
    /\ UNCHANGED beyond_fine

\* for chain_id, chain_config in self.chains.items(): balance, volume, data_point
ForChain(i) ==
    /\ threads[i] = "for"
    /\ IF tick_local.n > NumChains
       THEN /\ threads' = [threads EXCEPT ![i] = "fraud"]
            /\ tick_local' = NoTick
       ELSE \E draws \in FineDraws :
            LET chain == ChainOrder[tick_local.n]
            IN  /\ tick_local' = [tick_local EXCEPT
                        !.data_point = DataPoint(chain, current_time, draws[chain])]
                /\ threads' = [threads EXCEPT ![i] = "append balance"]
    /\ UNCHANGED <<running, thread, sim_state, caller, last_call, reader>>
    /\ UNCHANGED beyond_fine

\* self.balance_history[chain_id].append(data_point)
AppendBalance(i) ==
    /\ threads[i] = "append balance"
    /\ balance_history' = [balance_history EXCEPT
            ![ChainOrder[tick_local.n]] = Append(@, tick_local.data_point)]
    /\ threads' = [threads EXCEPT ![i] = "append volume"]
    /\ UNCHANGED <<running, thread, current_time, volume_history, transaction_events,
                   caller, last_call, tick_local, reader>>
    /\ UNCHANGED beyond_fine

\* self.volume_history[chain_id].append(data_point)
AppendVolume(i) ==
    /\ threads[i] = "append volume"
    /\ volume_history' = [volume_history EXCEPT
            ![ChainOrder[tick_local.n]] = Append(@, tick_local.data_point)]
    /\ threads' = [threads EXCEPT ![i] = "pop balance"]
    /\ UNCHANGED <<running, thread, current_time, balance_history, transaction_events,
                   caller, last_call, tick_local, reader>>
    /\ UNCHANGED beyond_fine

\* if len(self.balance_history[chain_id]) > 200: self.balance_history[chain_id].pop(0)
PopBalance(i) ==
    /\ threads[i] = "pop balance"
    /\ balance_history' = [balance_history EXCEPT
            ![ChainOrder[tick_local.n]] = Evict(@, HistoryCap)]
    /\ threads' = [threads EXCEPT ![i] = "pop volume"]
    /\ UNCHANGED <<running, thread, current_time, volume_history, transaction_events,
                   caller, last_call, tick_local, reader>>
    /\ UNCHANGED beyond_fine

\* if len(self.volume_history[chain_id]) > 200: self.volume_history[chain_id].pop(0)
PopVolume(i) ==
    /\ threads[i] = "pop volume"
    /\ volume_history' = [volume_history EXCEPT
            ![ChainOrder[tick_local.n]] = Evict(@, HistoryCap)]
    /\ tick_local' = [n |-> tick_local.n + 1, data_point |-> <<>>]
    /\ threads' = [threads EXCEPT ![i] = "for"]
    /\ UNCHANGED <<running, thread, current_time, balance_history, transaction_events,
                   caller, last_call, reader>>
    /\ UNCHANGED beyond_fine

\* if random.random() < 0.1: _generate_fraud_event() up to its append
FraudRoll(i) ==
    /\ threads[i] = "fraud"
    /\ \E ed \in FineEventDraws \cup {NoEvent} :
        IF ed = NoEvent
        THEN /\ threads' = [threads EXCEPT ![i] = "sleep"]
             /\ UNCHANGED transaction_events
        ELSE /\ transaction_events' =
                    Append(transaction_events, FraudEvent(current_time, ed))
             /\ threads' = [threads EXCEPT ![i] = "pop event"]
    /\ UNCHANGED <<running, thread, current_time, balance_history, volume_history,
                   caller, last_call, tick_local, reader>>
    /\ UNCHANGED beyond_fine

\* if len(self.transaction_events) > 50: self.transaction_events.pop(0)
PopEvent(i) ==
    /\ threads[i] = "pop event"
    /\ transaction_events' = Evict(transaction_events, EventCap)
    /\ threads' = [threads EXCEPT ![i] = "sleep"]
    /\ UNCHANGED <<running, thread, current_time, balance_history, volume_history,
                   caller, last_call, tick_local, reader>>
    /\ UNCHANGED beyond_fine

(* The reading thread.  It either takes the length of one of the lists, or runs
   get_current_data: for each chain the slice of balance_history, then the slice
   of volume_history (each padded in a list of its own), then the summary. *)

ReaderTimeframes == {"1M"}

\* len(simulator.balance_history[chain]), len(simulator.volume_history[chain])
InspectHistory(chain, history) ==
    /\ reader.pc = "idle"
    /\ reader' = [reader EXCEPT !.len = Len(history[chain])]
    /\ UNCHANGED <<simulator_vars, tick_local>>
    /\ UNCHANGED beyond_fine

\* get_current_data(timeframe) up to the loop over self.chains
ReadBegin(timeframe) ==
    /\ reader.pc = "idle"
    /\ reader' = [reader EXCEPT !.pc = "balance", !.n = 1, !.timeframe = timeframe,
                                !.balance_data = [chain \in Chains |-> <<>>],
                                !.volume_data = [chain \in Chains |-> <<>>]]
    /\ UNCHANGED <<simulator_vars, tick_local>>
    /\ UNCHANGED beyond_fine

\* balance_data = self.balance_history[chain_id][-num_points:] if ... else []
ReadBalance ==
    /\ reader.pc = "balance"
    /\ LET chain == ChainOrder[reader.n]
       IN  reader' = [reader EXCEPT !.pc = "volume",
                !.balance_data[chain] =
                    PaddedData(balance_history[chain], chain, points_map(reader.timeframe))]
    /\ UNCHANGED <<simulator_vars, tick_local>>
    /\ UNCHANGED beyond_fine

\* volume_data = self.volume_history[chain_id][-num_points:] if ... else []
ReadVolume ==
    /\ reader.pc = "volume"
    /\ LET chain == ChainOrder[reader.n]
       IN  reader' = [reader EXCEPT
                !.pc = IF reader.n = NumChains THEN "summary" ELSE "balance",
                !.n = reader.n + 1,
                !.volume_data[chain] =
                    PaddedData(volume_history[chain], chain, points_map(reader.timeframe))]
    /\ UNCHANGED <<simulator_vars, tick_local>>
    /\ UNCHANGED beyond_fine

\* summary['fraud_events']: len([e for e in self.transaction_events if ...])
CountFraudEvents ==
    Cardinality({k \in 1..Len(transaction_events) :
        FromIsoformat(transaction_events[k].timestamp) > current_time - 24 * 3600})

\* the summary and the return of get_current_data
ReadSummary ==
    /\ reader.pc = "summary"
    /\ reader' = [NoReader EXCEPT !.fraud_events = CountFraudEvents, !.len = reader.len]
    /\ UNCHANGED <<simulator_vars, tick_local>>
    /\ UNCHANGED beyond_fine

FineNext ==
    \/ start_simulation
    \/ \E i \in 1..Len(threads) : LoopCheck(i)
    \/ \E i \in 1..Len(threads) : AdvanceClock(i)
    \/ \E i \in 1..Len(threads) : ForChain(i)
    \/ \E i \in 1..Len(threads) : AppendBalance(i)
    \/ \E i \in 1..Len(threads) : AppendVolume(i)
    \/ \E i \in 1..Len(threads) : PopBalance(i)
    \/ \E i \in 1..Len(threads) : PopVolume(i)
    \/ \E i \in 1..Len(threads) : FraudRoll(i)
    \/ \E i \in 1..Len(threads) : PopEvent(i)
    \/ \E i \in 1..Len(threads) : Sleep(i)
    \/ \E chain \in Chains : InspectHistory(chain, balance_history)
    \/ \E chain \in Chains : InspectHistory(chain, volume_history)
    \/ \E timeframe \in ReaderTimeframes : ReadBegin(timeframe)
    \/ ReadBalance
    \/ ReadVolume
    \/ ReadSummary

FineSpec == Init /\ [][FineNext]_vars

----------------------------------------------------------------------------
(* start_simulation and stop_simulation called by several threads at once, each
   statement a step.  callers[c].pc is "idle", or the statement caller c is at:
   "set running", "create thread", "start thread" in start_simulation,
   "if thread", "read thread", "join" in stop_simulation.  A Thread object that
   was created but not started is "new" in threads.  No Thread object is
   dropped here: a caller may hold one in a join. *)

\* the Thread objects the model lets the callers create
MaxThreads == 3

InStart == {"set running", "create thread", "start thread"}
InStop == {"if thread", "read thread", "join"}

\* the callers that are in start_simulation and have not yet created their Thread
ToCreate == {c \in CallerIds : callers[c].pc \in {"set running", "create thread"}}

\* if self.running: return
CheckRunning(c) ==
    /\ callers[c].pc = "idle"
    /\ Len(threads) + Cardinality(ToCreate) < MaxThreads
    /\ callers' = [callers EXCEPT ![c].pc = IF running THEN "idle" ELSE "set running"]
    /\ UNCHANGED simulator_vars
    /\ UNCHANGED beyond_race

\* self.running = True
SetRunning(c) ==
    /\ callers[c].pc = "set running"
    /\ running' = TRUE
    /\ callers' = [callers EXCEPT ![c].pc = "create thread"]
    /\ UNCHANGED <<thread, sim_state, threads, caller, last_call>>
    /\ UNCHANGED beyond_race

\* self.thread = threading.Thread(target=self._simulation_loop, daemon=True)
CreateThread(c) ==
    /\ callers[c].pc = "create thread"
    /\ threads' = Append(threads, "new")
    /\ thread' = Len(threads) + 1
    /\ callers' = [callers EXCEPT ![c].pc = "start thread"]
    /\ UNCHANGED <<running, sim_state, caller, last_call>>
    /\ UNCHANGED beyond_race

\* self.thread.start(): RuntimeError if that Thread was started already
StartThread(c) ==
    /\ callers[c].pc = "start thread"
    /\ threads' = IF threads[thread] = "new"
                  THEN [threads EXCEPT ![thread] = "while"]
                  ELSE threads
    /\ callers' = [callers EXCEPT ![c].pc = "idle"]
    /\ UNCHANGED <<running, thread, sim_state, caller, last_call>>
    /\ UNCHANGED beyond_race

\* self.running = False
ClearRunning(c) ==
    /\ callers[c].pc = "idle"
    /\ running' = FALSE
    /\ callers' = [callers EXCEPT ![c].pc = "if thread"]
    /\ UNCHANGED <<thread, sim_state, threads, caller, last_call>>
    /\ UNCHANGED beyond_race

\* if self.thread:
IfThread(c) ==
    /\ callers[c].pc = "if thread"
    /\ callers' = [callers EXCEPT ![c].pc = IF thread # 0 THEN "read thread" ELSE "idle"]
    /\ UNCHANGED simulator_vars
    /\ UNCHANGED beyond_race

\* self.thread.join() up to the wait: RuntimeError if that Thread was not started
ReadThread(c) ==
    /\ callers[c].pc = "read thread"
    /\ callers' = [callers EXCEPT ![c] = IF threads[thread] = "new"
                                         THEN NoCaller
                                         ELSE [pc |-> "join", joined |-> thread]]
    /\ UNCHANGED simulator_vars
    /\ UNCHANGED beyond_race

\* join() returns when the Thread has left _simulation_loop
JoinThread(c) ==
    /\ callers[c].pc = "join"
    /\ JoinReturns(callers[c].joined)
    /\ callers' = [callers EXCEPT ![c] = NoCaller]
    /\ UNCHANGED simulator_vars
    /\ UNCHANGED beyond_race

\* try: self._generate_tick_data(), which does not raise here; from tick MaxTicks
\* on the model leaves the simulation state as it is and lets the loop go on
LoopTick(i) ==
    /\ threads[i] = "try"
    /\ IF current_time < MaxTicks
       THEN \E draws \in FineDraws : _generate_tick_data(draws, NoEvent, NoFail)
       ELSE UNCHANGED sim_state
    /\ threads' = [threads EXCEPT ![i] = "sleep"]
    /\ UNCHANGED <<running, thread, caller, last_call>>
    /\ UNCHANGED beyond_simulator

\* a step of the i-th Thread object
ThreadStep(i) ==
    /\ i <= Len(threads)
    /\ (LoopCheck(i) \/ LoopTick(i) \/ Sleep(i))

\* a step of caller c inside the call it is in
CallStep(c) ==
    \/ SetRunning(c)
    \/ CreateThread(c)
    \/ StartThread(c)
    \/ IfThread(c)
    \/ ReadThread(c)
    \/ JoinThread(c)

RaceNext ==
    \/ \E c \in CallerIds : CheckRunning(c)
    \/ \E c \in CallerIds : ClearRunning(c)
    \/ \E c \in CallerIds : CallStep(c)
    \/ \E i \in 1..MaxThreads : ThreadStep(i)

\* a started thread keeps running, and a caller goes on with the call it is in
RaceFairness ==
    /\ \A i \in 1..MaxThreads : WF_vars(ThreadStep(i))
    /\ \A c \in CallerIds : WF_vars(CallStep(c))

RaceSpec == Init /\ [][RaceNext]_vars /\ RaceFairness

----------------------------------------------------------------------------
(* get_simulator and stop_global_simulator called by several threads at once,
   each statement a step.  Several BlockchainSimulator objects can exist here,
   so the fields live in objects[o]: running, thread (0 is None, else an index
   of object_threads) and current_time, which stands for the simulation state
   of the object.  getters[c].pc is "idle" or the statement caller c is at;
   getters[c].object is the simulator it called a method of, getters[c].result
   what its last get_simulator returned. *)

\* objects and object_threads with one field of one entry changed
SetRunningOf(o, value) == [objects EXCEPT ![o].running = value]

\* the callers between the test `_simulator is None` and the constructor
ToConstruct == {c \in CallerIds : getters[c].pc = "construct"}

\* if _simulator is None:
TestNone(c) ==
    /\ getters[c].pc = "idle"
    /\ _simulator = 0 => Len(objects) + Cardinality(ToConstruct) < MaxInstances
    /\ getters' = [getters EXCEPT ![c].pc = IF _simulator = 0 THEN "construct" ELSE "return"]
    /\ UNCHANGED <<_simulator, objects, object_threads>>
    /\ UNCHANGED beyond_getters

\* _simulator = BlockchainSimulator()
ConstructGlobal(c) ==
    /\ getters[c].pc = "construct"
    /\ objects' = Append(objects, [running |-> FALSE, thread |-> 0, current_time |-> 0])
    /\ _simulator' = Len(objects) + 1
    /\ getters' = [getters EXCEPT ![c].pc = "call start"]
    /\ UNCHANGED object_threads
    /\ UNCHANGED beyond_getters

\* _simulator.start_simulation(): the object the global names now (AttributeError
\* if it is None by now), and its `if self.running: return`
CallStart(c) ==
    /\ getters[c].pc = "call start"
    /\ getters' = [getters EXCEPT
            ![c].object = _simulator,
            ![c].pc = IF _simulator = 0 THEN "idle"
                      ELSE IF objects[_simulator].running THEN "return"
                      ELSE "set running"]
    /\ UNCHANGED <<_simulator, objects, object_threads>>
    /\ UNCHANGED beyond_getters

\* self.running = True
GlobalSetRunning(c) ==
    /\ getters[c].pc = "set running"
    /\ objects' = SetRunningOf(getters[c].object, TRUE)
    /\ getters' = [getters EXCEPT ![c].pc = "create thread"]
    /\ UNCHANGED <<_simulator, object_threads>>
    /\ UNCHANGED beyond_getters

\* self.thread = threading.Thread(target=self._simulation_loop, daemon=True)
GlobalCreateThread(c) ==
    /\ getters[c].pc = "create thread"
    /\ object_threads' = Append(object_threads, [object |-> getters[c].object, pc |-> "new"])
    /\ objects' = [objects EXCEPT ![getters[c].object].thread = Len(object_threads) + 1]
    /\ getters' = [getters EXCEPT ![c].pc = "start thread"]
    /\ UNCHANGED _simulator
    /\ UNCHANGED beyond_getters

\* self.thread.start(): RuntimeError if that Thread was started already
GlobalStartThread(c) ==
    /\ getters[c].pc = "start thread"
    /\ LET t == objects[getters[c].object].thread
       IN  IF object_threads[t].pc = "new"
           THEN /\ object_threads' = [object_threads EXCEPT ![t].pc = "while"]
                /\ getters' = [getters EXCEPT ![c].pc = "return"]
           ELSE /\ getters' = [getters EXCEPT ![c].pc = "idle"]
                /\ UNCHANGED object_threads
    /\ UNCHANGED <<_simulator, objects>>
    /\ UNCHANGED beyond_getters

\* return _simulator
ReturnSimulator(c) ==
    /\ getters[c].pc = "return"
    /\ getters' = [getters EXCEPT ![c].pc = "idle", ![c].result = _simulator]
    /\ UNCHANGED <<_simulator, objects, object_threads>>
    /\ UNCHANGED beyond_getters

\* if _simulator:
TestSimulator(c) ==
    /\ getters[c].pc = "idle"
    /\ getters' = [getters EXCEPT ![c].pc = IF _simulator # 0 THEN "call stop" ELSE "idle"]
    /\ UNCHANGED <<_simulator, objects, object_threads>>
    /\ UNCHANGED beyond_getters

\* _simulator.stop_simulation(): the object the global names now (AttributeError
\* if it is None by now), and its `self.running = False`
CallStop(c) ==
    /\ getters[c].pc = "call stop"
    /\ IF _simulator = 0
       THEN /\ getters' = [getters EXCEPT ![c].pc = "idle"]
            /\ UNCHANGED objects
       ELSE /\ objects' = SetRunningOf(_simulator, FALSE)
            /\ getters' = [getters EXCEPT ![c].object = _simulator, ![c].pc = "if thread"]
    /\ UNCHANGED <<_simulator, object_threads>>
    /\ UNCHANGED beyond_getters

\* if self.thread: self.thread.join(), up to the wait (RuntimeError if that
\* Thread was not started)
GlobalIfThread(c) ==
    /\ getters[c].pc = "if thread"
    /\ LET t == objects[getters[c].object].thread
       IN  getters' = [getters EXCEPT ![c].pc =
                IF t = 0 THEN "clear"
                ELSE IF object_threads[t].pc = "new" THEN "idle" ELSE "join"]
    /\ UNCHANGED <<_simulator, objects, object_threads>>
    /\ UNCHANGED beyond_getters

\* join() returns when the Thread has left _simulation_loop
GlobalJoinThread(c) ==
    /\ getters[c].pc = "join"
    /\ object_threads[objects[getters[c].object].thread].pc = "done"
    /\ getters' = [getters EXCEPT ![c].pc = "clear"]
    /\ UNCHANGED <<_simulator, objects, object_threads>>
    /\ UNCHANGED beyond_getters

\* _simulator = None
ClearSimulator(c) ==
    /\ getters[c].pc = "clear"
    /\ _simulator' = 0
    /\ getters' = [getters EXCEPT ![c].pc = "idle"]
    /\ UNCHANGED <<objects, object_threads>>
    /\ UNCHANGED beyond_getters

\* _simulation_loop of the t-th Thread object: the loop test, a tick that returns
\* (the clock of its simulator stops at MaxTicks), the sleep
ObjectLoop(t) ==
    /\ t <= Len(object_threads)
    /\ LET o == object_threads[t].object
       IN  \/ /\ object_threads[t].pc = "while"
              /\ object_threads' = [object_threads EXCEPT
                    ![t].pc = IF objects[o].running THEN "try" ELSE "done"]
              /\ UNCHANGED objects
           \/ /\ object_threads[t].pc = "try"
              /\ objects' = [objects EXCEPT
                    ![o].current_time = IF @ < MaxTicks THEN AddSecond(@) ELSE @]
              /\ object_threads' = [object_threads EXCEPT ![t].pc = "sleep"]
           \/ /\ object_threads[t].pc = "sleep"
              /\ object_threads' = [object_threads EXCEPT ![t].pc = "while"]
              /\ UNCHANGED objects
    /\ UNCHANGED <<_simulator, getters>>
    /\ UNCHANGED beyond_getters

GetterNext ==
    \/ \E c \in CallerIds : TestNone(c)
    \/ \E c \in CallerIds : ConstructGlobal(c)
    \/ \E c \in CallerIds : CallStart(c)
    \/ \E c \in CallerIds : GlobalSetRunning(c)
    \/ \E c \in CallerIds : GlobalCreateThread(c)
    \/ \E c \in CallerIds : GlobalStartThread(c)
    \/ \E c \in CallerIds : ReturnSimulator(c)
    \/ \E c \in CallerIds : TestSimulator(c)
    \/ \E c \in CallerIds : CallStop(c)
    \/ \E c \in CallerIds : GlobalIfThread(c)
    \/ \E c \in CallerIds : GlobalJoinThread(c)
    \/ \E c \in CallerIds : ClearSimulator(c)
    \/ \E t \in 1..MaxInstances : ObjectLoop(t)

GetterSpec == Init /\ [][GetterNext]_vars

----------------------------------------------------------------------------
(* CacheService.set_portfolio_data and get_portfolio_data over the rows of
   PortfolioCache.  Time is counted in minutes.  data is a JSONField: a row
   holds the JSON text of the dict, and reading the row parses it. *)

\* the minutes the model lets the clock run
MaxNow == 2

\* the dicts the callers cache
CacheData == {[total_value_usd |-> 0, wallet_count |-> 0],
              [total_value_usd |-> 5, wallet_count |-> 1]}
TtlMinutes == {0, 1}

\* json.dumps of a dict: its members as text, and json.loads of that text
JsonDumps(data) == {<<key, data[key]>> : key \in DOMAIN data}
JsonLoads(text) ==
    [key \in {member[1] : member \in text} |->
        (CHOOSE member \in text : member[1] = key)[2]]

\* the rows with this user and cache_key
RowsOf(user, key) == {row \in cache_rows : row.user = user /\ row.cache_key = key}

\* PortfolioCache.objects.update_or_create(user_id=, cache_key=, defaults=)
update_or_create(user, key, defaults) ==
    (cache_rows \ RowsOf(user, key)) \cup {[user |-> user, cache_key |-> key] @@ defaults}

\* an entry that is taken for expired at its deadline already
ExpiredAtDeadline(expires_at, t) == expires_at # None /\ expires_at.minute <= t

\* if cache.expires_at and cache.expires_at < timezone.now()
Expired(expires_at, t) == expires_at # None /\ expires_at.minute < t

\* the table after set_portfolio_data
RowsAfterSet(user, key, data, ttl_minutes) ==
    LET expires_at == IF ttl_minutes # 0 THEN Datetime(now + ttl_minutes) ELSE None
    IN  update_or_create(user, key, [data |-> JsonDumps(data), expires_at |-> expires_at])

\* the record of the latest set_portfolio_data call of each (user, key)
LastSetAfter(user, key, data, ttl_minutes) ==
    [last_set EXCEPT ![<<user, key>>] =
        [data |-> data, ttl_minutes |-> ttl_minutes, at |-> now]]

set_portfolio_data(user, key, data, ttl_minutes) ==
    /\ cache_rows' = RowsAfterSet(user, key, data, ttl_minutes)
    /\ last_set' = LastSetAfter(user, key, data, ttl_minutes)
    /\ UNCHANGED <<now, cache_call>>
    /\ UNCHANGED beyond_cache

\* what get_portfolio_data returns, "MultipleObjectsReturned" when objects.get
\* raises that
GetResult(user, key) ==
    LET found == RowsOf(user, key)
    IN  IF found = {} THEN None
        ELSE IF Cardinality(found) > 1 THEN [raised |-> "MultipleObjectsReturned"]
        ELSE LET cache == CHOOSE row \in found : TRUE
             IN  IF Expired(cache.expires_at, now) THEN None ELSE JsonLoads(cache.data)

\* the table after get_portfolio_data: cache.delete() when the row has expired
RowsAfterGet(user, key) ==
    LET found == RowsOf(user, key)
    IN  IF Cardinality(found) = 1 /\ (\E row \in found : Expired(row.expires_at, now))
        THEN cache_rows \ found
        ELSE cache_rows

get_portfolio_data(user, key) ==
    /\ cache_call' = [user |-> user, key |-> key, result |-> GetResult(user, key)]
    /\ cache_rows' = RowsAfterGet(user, key)
    /\ UNCHANGED <<now, last_set>>
    /\ UNCHANGED beyond_cache

\* a minute passes
Minute ==
    /\ now < MaxNow
    /\ now' = now + 1
    /\ UNCHANGED <<cache_rows, last_set, cache_call>>
    /\ UNCHANGED beyond_cache

CacheNext ==
    \/ \E slot \in CacheSlots, data \in CacheData, ttl_minutes \in TtlMinutes :
            set_portfolio_data(slot[1], slot[2], data, ttl_minutes)
    \/ \E slot \in CacheSlots : get_portfolio_data(slot[1], slot[2])
    \/ Minute

CacheSpec == Init /\ [][CacheNext]_vars

----------------------------------------------------------------------------
(* PortfolioService.get_portfolio_summary, statement by statement, for requests
   of one user that run at the same time: the lookup in the cache, the
   computation over the user's active wallets, and the write to the cache are
   separate statements, and each ORM call commits on its own.  Of the result
   dict the model keeps total_value_usd and wallet_count; the other members are
   computed and cached along the same path. *)

\* the active wallets the model lets the user have
MaxActive == 1

\* the values _get_mock_wallet_value draws for a wallet
MockValues == {2, 3}

\* the totals the loop over the wallets can reach
RECURSIVE TotalsOf(_)
TotalsOf(n) ==
    IF n = 0 THEN {0}
    ELSE {total + value : total \in TotalsOf(n - 1), value \in MockValues}

\* a cache lookup that never counts as found
NeverTruthy(cached_data) == FALSE

\* if cached_data: None and an empty dict are falsy
Truthy(cached_data) == cached_data # None /\ DOMAIN cached_data # {}

\* the record of a call that returns: its result, whether it came from the
\* cache, and the minute, the wallets and the service's mock flag of the return
Returned(r, result, cached) ==
    [result |-> result, cached |-> cached, at |-> now,
     wallets |-> active_wallets, mock_data_enabled |-> services[r].mock_data_enabled]

\* PortfolioService(user): __init__ reads UserSettings.mock_data_enabled
ServiceInit(r) ==
    /\ services[r].pc = "idle"
    /\ services' = [services EXCEPT ![r] =
            [pc |-> "get", mock_data_enabled |-> mock_data_enabled, result |-> None]]
    /\ UNCHANGED <<active_wallets, mock_data_enabled, summary_call>>
    /\ UNCHANGED cache_vars
    /\ UNCHANGED beyond_summary

\* cached_data = get_portfolio_data(...); if cached_data: return cached_data
CacheLookup(r) ==
    /\ services[r].pc = "get"
    /\ LET cached_data == GetResult(SummarySlot[1], SummarySlot[2])
       IN  /\ cache_rows' = RowsAfterGet(SummarySlot[1], SummarySlot[2])
           /\ IF Truthy(cached_data)
              THEN /\ services' = [services EXCEPT ![r] = NoService]
                   /\ summary_call' = Returned(r, cached_data, TRUE)
              ELSE /\ services' = [services EXCEPT ![r].pc = "compute"]
                   /\ UNCHANGED summary_call
    /\ UNCHANGED <<now, last_set, cache_call, active_wallets, mock_data_enabled>>
    /\ UNCHANGED beyond_summary

\* wallets = Wallet.objects.filter(user, is_active=True) up to result = {...}
ComputeSummary(r) ==
    /\ services[r].pc = "compute"
    /\ \E total_value \in
            (IF services[r].mock_data_enabled THEN TotalsOf(active_wallets) ELSE {0}) :
          services' = [services EXCEPT
              ![r].pc = "set",
              ![r].result = [total_value_usd |-> total_value,
                             wallet_count |-> active_wallets]]
    /\ UNCHANGED <<active_wallets, mock_data_enabled, summary_call>>
    /\ UNCHANGED cache_vars
    /\ UNCHANGED beyond_summary

\* set_portfolio_data(self.user.id, cache_key, result, ttl_minutes=1); return result
CacheWrite(r) ==
    /\ services[r].pc = "set"
    /\ cache_rows' = RowsAfterSet(SummarySlot[1], SummarySlot[2], services[r].result, 1)
    /\ last_set' = LastSetAfter(SummarySlot[1], SummarySlot[2], services[r].result, 1)
    /\ services' = [services EXCEPT ![r] = NoService]
    /\ summary_call' = Returned(r, services[r].result, FALSE)
    /\ UNCHANGED <<now, cache_call, active_wallets, mock_data_enabled>>
    /\ UNCHANGED beyond_summary

\* the user adds a wallet, or reactivates one
AddWallet ==
    /\ active_wallets < MaxActive
    /\ active_wallets' = active_wallets + 1
    /\ UNCHANGED <<mock_data_enabled, services, summary_call>>
    /\ UNCHANGED cache_vars
    /\ UNCHANGED beyond_summary

\* the user deletes a wallet
DeleteWallet ==
    /\ active_wallets > 0
    /\ active_wallets' = active_wallets - 1
    /\ UNCHANGED <<mock_data_enabled, services, summary_call>>
    /\ UNCHANGED cache_vars
    /\ UNCHANGED beyond_summary

\* the user toggles mock_data_enabled in the settings
ToggleMock ==
    /\ mock_data_enabled' = ~mock_data_enabled
    /\ UNCHANGED <<active_wallets, services, summary_call>>
    /\ UNCHANGED cache_vars
    /\ UNCHANGED beyond_summary

SummaryNext ==
    \/ \E r \in RequestIds : ServiceInit(r)
    \/ \E r \in RequestIds : CacheLookup(r)
    \/ \E r \in RequestIds : ComputeSummary(r)
    \/ \E r \in RequestIds : CacheWrite(r)
    \/ AddWallet
    \/ DeleteWallet
    \/ ToggleMock
    \/ Minute

SummarySpec == Init /\ [][SummaryNext]_vars

----------------------------------------------------------------------------
(* Properties *)

\* the balances and the volumes of one chain in the snapshot of a timeframe
Balances(timeframe, chain) == ChainData(chain, points_map(timeframe)).balances
Volumes(timeframe, chain) == ChainData(chain, points_map(timeframe)).volume

\* C1: after every completed tick each chain's balance_history and
\* volume_history hold at most the history cap (200 in the source) and
\* transaction_events at most the event cap (50 in the source).
C1_HistoryBounded ==
    /\ \A chain \in Chains :
        /\ Len(balance_history[chain]) <= HistoryCap
        /\ Len(volume_history[chain]) <= HistoryCap
    /\ Len(transaction_events) <= EventCap

\* more ticks than the cap have stored a sample for ethereum, and the lists are full
C1_Witness ==
    /\ current_time > HistoryCap
    /\ Len(balance_history["ethereum"]) = HistoryCap
    /\ Len(volume_history["ethereum"]) = HistoryCap
    /\ balance_history["ethereum"][1].timestamp = Isoformat(current_time - HistoryCap + 1)
    /\ Len(transaction_events) = EventCap

\* C2: once stop_simulation has returned and until start_simulation is called
\* again, no step changes current_time, the histories or transaction_events.
C2_NoTickAfterStop ==
    [][(caller = "idle" /\ ~running) => UNCHANGED sim_state]_vars

\* stop_simulation has returned on a simulator that had ticked
C2_Witness ==
    /\ caller = "idle"
    /\ ~running
    /\ last_call = [op |-> "stop_simulation", arg |-> "returned"]
    /\ thread # 0
    /\ Len(balance_history["polygon"]) > 0

\* C3: start_simulation on a running simulator creates no thread and leaves
\* running, self.thread and the simulation state as they were.
C3_StartTwiceNoOp ==
    [][(running /\ start_simulation) =>
          UNCHANGED <<running, thread, threads, sim_state>>]_vars

\* start_simulation was called on a running simulator, which still has one thread
C3_Witness ==
    /\ last_call = [op |-> "start_simulation", arg |-> "already running"]
    /\ running
    /\ Len(threads) = 1
    /\ current_time > 0

\* C4: a raise inside a tick takes the thread to the except clause and from there
\* back to the loop test; the loop is left only at the test, with running false,
\* and a test with running true goes on to the next tick attempt.
C4_LoopSurvivesRaise ==
    [][\A i \in 1..Len(threads) :
          i <= Len(threads') =>
            /\ threads[i] = "except" => threads'[i] \in {"except", "while"}
            /\ (threads[i] # "done" /\ threads'[i] = "done") =>
                    (threads[i] = "while" /\ ~running)
            /\ (threads[i] = "while" /\ running /\ threads'[i] # "while") =>
                    threads'[i] = "try"]_vars

\* a tick raised after ethereum's sample was stored, and the thread is at a new attempt
C4_Witness ==
    /\ Len(threads) = 1
    /\ threads[1] = "try"
    /\ running
    /\ Len(balance_history["ethereum"]) > Len(balance_history["arbitrum"])

\* C5: a tick that raises leaves current_time, the histories and
\* transaction_events as they were before the tick.
C5_FailedTickLeavesState ==
    [][\A i \in 1..Len(threads) :
          (i <= Len(threads') /\ threads[i] = "try" /\ threads'[i] = "except") =>
                UNCHANGED sim_state]_vars

\* C6: for every timeframe and every state of the histories the snapshot holds
\* exactly num_points balances and num_points volumes per chain.
C6_ExactlyNPoints ==
    \A timeframe \in Timeframes, chain \in Chains :
        /\ Len(Balances(timeframe, chain)) = points_map(timeframe)
        /\ Len(Volumes(timeframe, chain)) = points_map(timeframe)

\* get_current_data has returned while ethereum had samples, but fewer than the
\* points of '5M' and '30M'
C6_Witness ==
    /\ last_call = [op |-> "get_current_data", arg |-> "returned"]
    /\ Len(balance_history["ethereum"]) > 0
    /\ Len(balance_history["ethereum"]) < points_map("5M")
    /\ Len(balance_history["ethereum"]) >= points_map("1M")

\* C7: with k < num_points samples, the last k points of the snapshot are the
\* samples in history order and the points before them are base_balance and 0.
C7_LeftPadded ==
    \A timeframe \in Timeframes, chain \in Chains :
        LET n  == points_map(timeframe)
            kb == Len(balance_history[chain])
            kv == Len(volume_history[chain])
            b  == Balances(timeframe, chain)
            v  == Volumes(timeframe, chain)
        IN  /\ kb < n =>
                /\ Len(b) = n
                /\ \A j \in 1..kb : b[n - kb + j] = balance_history[chain][j].balance
                /\ \A j \in 1..(n - kb) : b[j] = base_balance(chain)
            /\ kv < n =>
                /\ Len(v) = n
                /\ \A j \in 1..kv : v[n - kv + j] = volume_history[chain][j].volume
                /\ \A j \in 1..(n - kv) : v[j] = 0

\* get_current_data has returned while optimism had two samples, of different
\* balance and volume and fewer than the points of '30M' 
C7_Witness ==
    /\ last_call = [op |-> "get_current_data", arg |-> "returned"]
    /\ Len(balance_history["optimism"]) = 2
    /\ points_map("30M") > 2
    /\ balance_history["optimism"][1].balance # balance_history["optimism"][2].balance
    /\ volume_history["optimism"][1].volume # volume_history["optimism"][2].volume
    /\ balance_history["optimism"][2].balance # base_balance("optimism")

\* C8: get_current_data changes neither the histories nor transaction_events,
\* current_time or running, whatever the timeframe and however much it pads.
C8_ReadOnly ==
    [][\A timeframe \in Timeframes :
          GetCurrentData(timeframe) =>
            UNCHANGED <<balance_history, volume_history, transaction_events,
                        current_time, running>>]_vars

\* get_current_data has returned on a history that every timeframe but '1M' pads
C8_Witness ==
    /\ last_call = [op |-> "get_current_data", arg |-> "returned"]
    /\ Len(balance_history["arbitrum"]) = 1
    /\ Len(volume_history["arbitrum"]) < points_map("5M")

\* C9: every balance stored in balance_history and every balance of a snapshot,
\* padded or not, is at least zero.
C9_BalanceNonNegative ==
    /\ \A chain \in Chains : \A i \in 1..Len(balance_history[chain]) :
            balance_history[chain][i].balance >= 0
    /\ \A timeframe \in Timeframes, chain \in Chains :
            LET b == Balances(timeframe, chain)
            IN  \A i \in 1..Len(b) : b[i] >= 0

\* a tick stored a balance that the clamp brought up to zero
C9_Witness ==
    \E chain \in Chains : \E i \in 1..Len(balance_history[chain]) :
        balance_history[chain][i].balance = 0

\* the catalogue as the specification names it
SpecCatalogue ==
    {"large_transfer", "mixing_service", "bridge_transaction", "tumbler_activity",
     "structuring"}

\* the catalogue of the code
CodeCatalogue ==
    {"large_transfer", "mixing_service", "bridge_transaction", "tumbler_activity",
     "multiple_small_transfers"}

\* C10 as stated: every entry of transaction_events has one of the types
\* large_transfer, mixing_service, bridge_transaction, tumbler_activity, structuring.
C10_TypesInSpecCatalogue ==
    \A i \in 1..Len(transaction_events) : transaction_events[i].type \in SpecCatalogue

\* C10 as amended: every entry of transaction_events has one of the types
\* large_transfer, mixing_service, bridge_transaction, tumbler_activity,
\* multiple_small_transfers.
C10_TypesInCodeCatalogue ==
    \A i \in 1..Len(transaction_events) : transaction_events[i].type \in CodeCatalogue

\* the event log holds an event of the fifth type
C10_Witness ==
    /\ Len(transaction_events) > 0
    /\ transaction_events[Len(transaction_events)].type = "multiple_small_transfers"
    /\ current_time > 1

\* C11: get_current_data never raises a division error, and when the sum of the
\* second-latest balances of the chains is zero the change_percent it reports is
\* zero.
C11_NoDivisionError ==
    /\ last_call # [op |-> "get_current_data", arg |-> "raised"]
    /\ \A timeframe \in Timeframes :
          /\ ~get_current_data_raises(timeframe)
          /\ previous_balance(timeframe) = 0 =>
                ChangePercent(total_balance(timeframe), previous_balance(timeframe)) = 0

\* get_current_data returned while the second-latest samples of all chains are
\* zero and the latest are not
C11_Witness ==
    /\ last_call = [op |-> "get_current_data", arg |-> "returned"]
    /\ \A chain \in Chains : Len(balance_history[chain]) > 1
    /\ previous_balance("5M") = 0
    /\ total_balance("5M") > 0

\* the times of the data points of a history, oldest first
Timestamps(history) == [i \in 1..Len(history) |-> FromIsoformat(history[i].timestamp)]

NonDecreasing(list) == \A i \in 1..Len(list) - 1 : list[i] <= list[i + 1]

\* C13: current_time never decreases in a step, and in every state the
\* timestamps stored in each chain's balance and volume history are in
\* non-decreasing order.
C13_TimeMonotonic ==
    /\ [][current_time' >= current_time]_vars
    /\ [](\A chain \in Chains :
            /\ NonDecreasing(Timestamps(balance_history[chain]))
            /\ NonDecreasing(Timestamps(volume_history[chain])))

\* two ticks have passed and a history holds the data points of two different
\* seconds
C13_Witness ==
    /\ current_time >= 2
    /\ \E chain \in Chains :
          /\ Len(balance_history[chain]) >= 2
          /\ Timestamps(balance_history[chain])[1] < Timestamps(balance_history[chain])[2]

\* the step in which a get_simulator call that constructed the object returns
ReturnsNew == caller = "started" /\ caller' = "idle"

\* the step in which any get_simulator call returns
Returns == caller \in {"started", "found"} /\ caller' = "idle"

\* get_simulator creates only when there is no object, and while there is one
\* every call returns that running object, which stays the same until
\* stop_global_simulator clears it; a creating call returns an object never
\* returned before
SingletonSteps ==
    /\ (_simulator = 0 /\ returned' # returned) => ReturnsNew
    /\ (_simulator # 0 /\ _simulator' # 0) => _simulator' = _simulator
    /\ Returns => (returned' = _simulator /\ returned' # 0 /\ running')
    /\ (Returns /\ caller = "found") => returned' = returned
    /\ ReturnsNew => returned' > returned

\* C12 as stated: the global simulator is created lazily and is a singleton
\* (every get_simulator between creation and stop_global_simulator returns the
\* same running object), and the first get_simulator after stop_global_simulator
\* returns a new running simulator whose histories and event log are empty.
C12_NewSimulatorEmptyAtReturn ==
    [][/\ SingletonSteps
       /\ (ReturnsNew /\ instances > 1) =>
            /\ \A chain \in Chains :
                  balance_history'[chain] = <<>> /\ volume_history'[chain] = <<>>
            /\ transaction_events' = <<>>]_vars

\* C12 as amended: lazily created singleton as above, and the first
\* get_simulator after stop_global_simulator returns a new running simulator
\* that was constructed with empty histories and an empty event log and holds,
\* when the call returns, only what its own ticks stored since then (at most one
\* data point per chain and one event for every second of its clock).
C12_NewSimulatorOwnDataOnly ==
    [][/\ SingletonSteps
       /\ _simulator' \notin {0, _simulator} =>
            /\ \A chain \in Chains :
                  balance_history'[chain] = <<>> /\ volume_history'[chain] = <<>>
            /\ transaction_events' = <<>>
       /\ ReturnsNew =>
            /\ \A chain \in Chains :
                  /\ Len(balance_history'[chain]) <= current_time'
                  /\ Len(volume_history'[chain]) <= current_time'
            /\ Len(transaction_events') <= current_time']_vars

\* the second object was returned by get_simulator, after a stop of the first
\* that had stored data, and already holds a data point of its own
C12_Witness ==
    /\ last_call = [op |-> "get_simulator", arg |-> "returned"]
    /\ returned = 2
    /\ _simulator = 2
    /\ running
    /\ current_time = 1
    /\ Len(balance_history["ethereum"]) = 1

\* viewer v's generator is in its loop
InLoop(v) == streams[v].pc \in {"try", "yield", "yield error", "sleep", "sleep error"}

\* the calls of get_portfolio_summary and the frames written in the pass of the
\* loop that viewer v's generator is in
OnePerIteration(v) ==
    /\ streams[v].pc = "try" => (streams[v].computed = 0 /\ streams[v].sent = 0)
    /\ streams[v].pc \in {"yield", "yield error"} =>
            (streams[v].computed = 1 /\ streams[v].sent = 0)
    /\ streams[v].pc \in {"sleep", "sleep error"} =>
            (streams[v].computed = 1 /\ streams[v].sent = 1)

\* every frame written to a connected viewer is followed by another one, unless
\* the viewer disconnects
FrameFollows ==
    \A v \in Viewers, k \in 0..(SeqModulus - 1) :
        (InLoop(v) /\ streams[v].seq = k /\ streams[v].last # <<>>)
            ~> (streams[v].seq = (k + 1) % SeqModulus \/ ~streams[v].connected)

OnlyStreamChanges(v) ==
    /\ \A w \in Viewers \ {v} : streams'[w] = streams[w]
    /\ UNCHANGED <<simulator_vars, global_vars>>

UniqueKeys ==
    \A w1, w2 \in wallets :
        (w1.user = w2.user /\ w1.address = w2.address /\ w1.chain = w2.chain) => w1 = w2

\* session s's POST to htmx_add_wallet is answered with 400 at once
Rejected400(s) ==
    /\ inflight'[s] = NoRequest
    /\ response' = Respond(s, "htmx_add_wallet", 400)
    /\ wallets' = wallets

WalletIds(user) == {w.id : w \in {x \in wallets : x.user = user}}

\* C17: whatever was requested before, when a logged-in user asks to delete a
\* wallet of another user the answer is 404 and the wallet still exists, a
\* delete removes nothing but the requester's own wallet, and the wallet page of
\* a user lists that user's wallets and no others.
C17_OwnWalletsOnly ==
    [][\A s \in Sessions :
        /\ \A wallet_id \in 1..MaxWallets :
              (session_user[s] # Anonymous /\ htmx_delete_wallet(s, "DELETE", wallet_id)) =>
                /\ wallets \ wallets' \subseteq
                        {w \in wallets : w.user = session_user[s] /\ w.id = wallet_id}
                /\ wallet_id \in WalletIds(session_user[s]) => response'.status = 200
                /\ wallet_id \notin WalletIds(session_user[s]) =>
                        (response'.status = 404 /\ wallets' = wallets)
        /\ (session_user[s] # Anonymous /\ htmx_wallets(s, "GET")) =>
                response'.listing = WalletIds(session_user[s])
      ]_vars

\* alice asked to delete bob's wallet, got 404, and the wallet is still there
C17_Witness ==
    /\ response.view = "htmx_delete_wallet"
    /\ response.status = 404
    /\ session_user[response.session] = "alice"
    /\ response.wallet_id \in WalletIds("bob")
    /\ WalletIds("alice") # {}

\* the answer to session s is the redirect of the view and nothing stored changed
Redirected(s, view) ==
    /\ response' = Respond(s, view, 302)
    /\ UNCHANGED <<stored_data, session_user, inflight>>

\* C18: a request, of any method, from a session that is not logged in to the
\* dashboard, the wallets page, add wallet, the transactions page or the
\* portfolio summary is answered with a 302 redirect and changes no stored data.
C18_AnonymousRedirected ==
    [][\A s \in Sessions, method \in Methods :
        (session_user[s] = Anonymous /\ response'.session = s) =>
            /\ htmx_dashboard(s, method) => Redirected(s, "htmx_dashboard")
            /\ htmx_wallets(s, method) => Redirected(s, "htmx_wallets")
            /\ htmx_add_wallet(s, method, "main", "ethereum", "0x742d") =>
                    Redirected(s, "htmx_add_wallet")
            /\ htmx_transactions(s, method) => Redirected(s, "htmx_transactions")
            /\ htmx_portfolio_summary(s, method) => Redirected(s, "htmx_portfolio_summary")
      ]_vars

\* a session that is not logged in was redirected while the tables hold the
\* rows of a user who is
C18_Witness ==
    /\ response.status = 302
    /\ response.view = "htmx_transactions"
    /\ session_user[response.session] = Anonymous
    /\ wallets # {}
    /\ user_settings # {}
    /\ portfolio_cache # {}

\* the users whose email and password a login names
ValidFor(username, password) ==
    {u \in Users : UserTable[u].email = username /\ UserTable[u].password = password}

LoginAnswer(s, status, auth_status) ==
    [Respond(s, "htmx_login", status) EXCEPT !.auth_status = auth_status]

\* C19: a session gets a user only in a login POST with valid credentials, which
\* is answered 200 with X-Auth-Status authenticated; a login POST with a missing
\* field is answered 400 and one with wrong credentials 401, and both leave the
\* session as it was; a logout POST is answered with X-Auth-Status
\* unauthenticated and leaves the session without a user, for which the
\* protected views answer 302.
C19_LoginOnlyWithCredentials ==
    [][\A s \in Sessions :
        /\ session_user'[s] \notin {Anonymous, session_user[s]} =>
              /\ response' = LoginAnswer(s, 200, "authenticated")
              /\ \E username \in Usernames, password \in Passwords :
                    /\ htmx_login(s, "POST", username, password)
                    /\ session_user'[s] \in ValidFor(username, password)
        /\ \A username \in Usernames, password \in Passwords :
              (response' = LoginAnswer(s, response'.status, response'.auth_status)
                    /\ htmx_login(s, "POST", username, password)) =>
                IF username = "" \/ password = ""
                THEN response' = LoginAnswer(s, 400, "") /\ UNCHANGED session_user
                ELSE IF ValidFor(username, password) = {}
                THEN response' = LoginAnswer(s, 401, "") /\ UNCHANGED session_user
                ELSE /\ response' = LoginAnswer(s, 200, "authenticated")
                     /\ session_user'[s] \in ValidFor(username, password)
        /\ (response'.view = "htmx_logout" /\ response'.session = s
                /\ htmx_logout(s, "POST")) =>
              /\ session_user'[s] = Anonymous
              /\ response'.status = 200
              /\ response'.auth_status = "unauthenticated"
        /\ \A method \in Methods :
              (session_user[s] = Anonymous /\ response'.session = s) =>
                /\ htmx_dashboard(s, method) => response'.status = 302
                /\ htmx_wallets(s, method) => response'.status = 302
                /\ htmx_transactions(s, method) => response'.status = 302
                /\ htmx_portfolio_summary(s, method) => response'.status = 302
      ]_vars

\* every session is logged out again, after one had logged in and left rows
\* behind, and the dashboard answers with the redirect
C19_Witness ==
    /\ response = Respond("s1", "htmx_dashboard", 302)
    /\ \A s \in Sessions : session_user[s] = Anonymous
    /\ user_settings = {"alice"}
    /\ portfolio_cache = {"alice"}

\* the sum of the amounts of the rows of the given types, for a wallet and symbol
RECURSIVE SumAmounts(_, _, _, _)
SumAmounts(wallet, symbol, types, n) ==
    IF n = 0 THEN 0
    ELSE SumAmounts(wallet, symbol, types, n - 1)
         + (IF /\ transactions[n].wallet = wallet
               /\ transactions[n].asset_symbol = symbol
               /\ transactions[n].transaction_type \in types
            THEN transactions[n].amount ELSE 0)

\* buys and transfers minus sells
SumOfLedger(wallet, symbol) ==
    SumAmounts(wallet, symbol, {"buy", "transfer"}, Len(transactions))
        - SumAmounts(wallet, symbol, {"sell"}, Len(transactions))

\* C20: for any set of transactions, _calculate_wallet_balance(wallet, asset)
\* is the sum of the amounts of the wallet's buy and transfer transactions of
\* the asset's symbol minus the sum of its sell amounts; transactions of other
\* wallets, of other symbols or of type contract_call do not contribute, and the
\* result is not clamped at zero.
C20_BalanceIsSumOfLedger ==
    [][\A wallet \in LedgerWallets, symbol \in Symbols :
        CalculateWalletBalance(wallet, symbol) =>
            balance_call'.result = SumOfLedger(wallet, symbol)]_vars

\* C21: a reader that inspects the simulator while the tick thread is running
\* never sees more entries than the history cap in a chain's balance_history or
\* volume_history, nor more than the event cap in transaction_events (which
\* get_current_data counts as fraud_events): the append and the eviction of a
\* tick are not observable apart.
C21_ReaderSeesBounded ==
    /\ reader.len <= HistoryCap
    /\ reader.fraud_events <= EventCap

\* d is a stored sample, not a point the padding put in
IsSample(d) == "timestamp" \in DOMAIN d

\* C28: a snapshot computed while the tick thread is running is consistent with
\* a tick boundary: the latest samples of all chains are of the same tick, and
\* for each chain the i-th balance and the i-th volume are of the same sample.
C28_SnapshotAtTickBoundary ==
    [][ReadSummary =>
        LET n == points_map(reader.timeframe)
        IN  /\ \A c1, c2 \in Chains :
                (IsSample(reader.balance_data[c1][n]) /\ IsSample(reader.balance_data[c2][n]))
                    => reader.balance_data[c1][n].timestamp = reader.balance_data[c2][n].timestamp
            /\ \A chain \in Chains, k \in 1..n :
                (IsSample(reader.balance_data[chain][k]) /\ IsSample(reader.volume_data[chain][k]))
                    => reader.balance_data[chain][k] = reader.volume_data[chain][k]]_vars

\* the list holds one sample for each of the last min(t, cap) ticks up to tick t,
\* the newest last
WindowOfTicks(list, t) ==
    /\ Len(list) = Min(t, HistoryCap)
    /\ \A k \in 1..Len(list) : list[k].timestamp = Isoformat(t - Len(list) + k)

\* every chain's histories hold the window of the ticks so far, and are the same
HistoriesAreWindow ==
    \A chain \in Chains :
        /\ WindowOfTicks(balance_history[chain], current_time)
        /\ volume_history[chain] = balance_history[chain]

\* a tick attempt raises in this step
TickRaises ==
    \E i \in 1..Len(threads) :
        i <= Len(threads') /\ threads[i] = "try" /\ threads'[i] = "except"

\* a tick completes in this step
TickCompletes ==
    \E i \in 1..Len(threads) :
        i <= Len(threads') /\ threads[i] = "try" /\ threads'[i] = "sleep"

\* C22: after t completed ticks on a fresh simulator each chain's
\* balance_history is the samples of the last min(t, cap) ticks in tick order,
\* the newest last, and volume_history is the same sequence: as long as no tick
\* raises, every step keeps the histories such a window, and a completed tick
\* appends its sample to what was there and drops nothing but the oldest.
C22_HistoryIsWindowOfTicks ==
    [][/\ (HistoriesAreWindow /\ ~TickRaises) => HistoriesAreWindow'
       /\ (HistoriesAreWindow /\ TickCompletes) =>
            \A chain \in Chains :
                LET old == balance_history[chain]
                    new == balance_history'[chain]
                IN  new = LastN(Append(old, new[Len(new)]), HistoryCap)]_vars

\* more ticks than the cap have completed and the oldest samples are gone
C22_Witness ==
    /\ HistoriesAreWindow
    /\ current_time > HistoryCap
    /\ \A chain \in Chains :
        /\ Len(balance_history[chain]) = HistoryCap
        /\ balance_history[chain][1].timestamp = Isoformat(current_time - HistoryCap + 1)
        /\ balance_history[chain][1] # balance_history[chain][HistoryCap]

\* the Thread objects that are executing _simulation_loop
LoopThreads == {i \in 1..Len(threads) : threads[i] \notin {"new", "done"}}

\* C23: under any interleaving of start_simulation and stop_simulation calls on
\* one simulator, calls from different threads included, at most one thread
\* executes the simulation loop at any time.
C23_OneLoopThread == Cardinality(LoopThreads) <= 1

\* C24: every call of stop_simulation eventually returns, also on a simulator
\* that was never started and concurrently with start_simulation.
C24_StopReturns ==
    \A c \in CallerIds : (callers[c].pc \in InStop) ~> (callers[c].pc = "idle")

\* C25: in the simulation loop every tick attempt, whether it returns or raises,
\* is followed by a sleep before the next attempt: the thread leaves an attempt
\* for the sleep (after which only the loop test lies before the next attempt).
C25_SleepAfterEveryAttempt ==
    [][\A i \in 1..Len(threads) :
          (i <= Len(threads') /\ threads[i] = "try" /\ threads'[i] # "try") =>
                threads'[i] = "sleep"]_vars

\* the simulators that have a thread in _simulation_loop
LiveSimulators ==
    {object_threads[t].object : t \in {u \in 1..Len(object_threads) :
                                        object_threads[u].pc \notin {"new", "done"}}}

\* C27: under any interleaving of concurrent get_simulator calls (and
\* stop_global_simulator) at most one simulator with a live tick thread exists
\* at a time, so that two racing first calls leave one simulator, one thread and
\* no orphan, and every simulator get_simulator returns is running.
C27_OneLiveSimulator ==
    [][/\ Cardinality(LiveSimulators') <= 1
       /\ \A c \in CallerIds :
            ReturnSimulator(c) => (_simulator # 0 /\ objects[_simulator].running)]_vars

\* C29: for every timeframe get_current_data accepts ('1M', '5M', '30M' and any
\* other value, which falls back to the points of '1M') the snapshot has as many
\* labels as it has points per chain.
C29_LabelsMatchPoints ==
    \A timeframe \in Timeframes, chain \in Chains :
        /\ Len(Labels(timeframe)) = Len(Balances(timeframe, chain))
        /\ Len(Labels(timeframe)) = Len(Volumes(timeframe, chain))

\* at most one row of PortfolioCache per (user, cache_key)
UniqueEntries ==
    \A r1, r2 \in cache_rows :
        (r1.user = r2.user /\ r1.cache_key = r2.cache_key) => r1 = r2

\* the expiry of the latest set for the slot has passed
ExpiryPassed(slot) ==
    /\ last_set[slot] # NoSet
    /\ last_set[slot].ttl_minutes # 0
    /\ now > last_set[slot].at + last_set[slot].ttl_minutes

\* what the claim has get_portfolio_data return
LatestData(slot) ==
    IF last_set[slot] = NoSet \/ ExpiryPassed(slot) THEN None ELSE last_set[slot].data

\* C26: for any sequence of set_portfolio_data and get_portfolio_data calls at
\* most one cache entry exists per (user, key); get_portfolio_data returns the
\* data of the latest set for that (user, key) as long as its expiry has not
\* passed (an entry stored with ttl 0 never expires), and once the expiry has
\* passed it returns None and the entry is gone.
C26_CacheReturnsLatestUnexpired ==
    [][/\ UniqueEntries'
       /\ \A slot \in CacheSlots :
            get_portfolio_data(slot[1], slot[2]) =>
                /\ cache_call'.result = LatestData(slot)
                /\ ExpiryPassed(slot) => RowsOf(slot[1], slot[2])' = {}]_vars

\* a get found alice's summary expired and deleted it, while an entry of hers
\* stored with ttl 0 before that minute is still there
C26_Witness ==
    /\ cache_call = [user |-> "alice", key |-> "portfolio_summary", result |-> None]
    /\ ExpiryPassed(<<"alice", "portfolio_summary">>)
    /\ RowsOf("alice", "portfolio_summary") = {}
    /\ last_set[<<"alice", "history">>].ttl_minutes = 0
    /\ last_set[<<"alice", "history">>].data # None
    /\ last_set[<<"alice", "history">>].at < now
    /\ \E row \in RowsOf("alice", "history") : row.expires_at = None

\* the entry written by the latest get_portfolio_summary has not expired
EntryLive ==
    /\ last_set[SummarySlot] # NoSet
    /\ now <= last_set[SummarySlot].at + last_set[SummarySlot].ttl_minutes

====
